---- MODULE Spec2Model ----
\* Irrigation controller (controllerService.js + thresholdService.js) as a
\* state machine: one action per telemetry cycle, the DeviceState collection,
\* the IrrigationEvent collection and the commands delivered to relay topics.
EXTENDS Integers, Sequences, FiniteSets, TLC

VARIABLES
  now,           \* wall clock, Date.now() in ms
  deviceStates,  \* DeviceState collection: deviceId -> stored document or NoDoc
  events,        \* IrrigationEvent collection (append-only)
  last,          \* what the most recent handleTelemetryMessage cycle did
  okAct,         \* per device: kind of the last delivered actuation not yet followed by a committed opposite one
  dbFault,       \* per device: a DeviceState load/create/save has failed at some point
  committedOnAt, \* per device: time of the last cycle that stored an ON (NullTs if none)
  committedOffAt,\* per device: time of the last cycle that stored an OFF (NullTs if none)
  cycles,        \* number of operations performed so far
  DEBUG_ALLOW_REON, \* the env flag read when the process starts
  heap,          \* per device: the document object the process still holds in memory from its last cycle
  ref,           \* the same telemetry processed by a controller that is never restarted
  coldStart,     \* the last cycle ran with nothing held in memory for its device
  inflight,      \* per handler invocation: where it stands in handleTelemetryMessage and its locals
  call,          \* a call of computeThreshold: its arguments, the crop-profile store, what it returned
  tock,          \* flips whenever wall-clock time is seen to pass
  lastMsg,       \* the MQTT message most recently handed to handleTelemetryMessage
  pub,           \* one run of publishManyFormats: loop position, attempts made, result so far
  alone,         \* per device: the controller that is sent that device's telemetry only
  hnd,           \* the subscribed handler: how its last invocation ended, the forecast it was given
  ui,            \* the dashboard's IrrigationControl: zones, stateRef, zoneStatus, its MQTT client
  ctl            \* startController / stopController and lib/mqttClient: subscribed, client, listeners

\* the controller, its database and its process memory
ctrlVars == <<now, deviceStates, events, last, okAct, dbFault, committedOnAt, committedOffAt,
              cycles, DEBUG_ALLOW_REON, heap>>
\* what the operations of the controller alone leave untouched
restartVars == <<ref, coldStart>>
asyncVars == <<inflight>>
thrVars == <<call>>
clockVars == <<tock>>
msgVars == <<lastMsg>>
pubVars == <<pub>>
devVars == <<alone>>
\* units and comparisons exercised on their own
handlerVars == <<hnd>>
uiVars == <<ui>>
lifeVars == <<ctl>>
unitVars == <<pubVars, devVars, handlerVars, uiVars, lifeVars>>
auxVars == <<restartVars, asyncVars, thrVars, clockVars, msgVars, unitVars>>

vars == <<ctrlVars, auxVars>>

-----------------------------------------------------------------------------
\* Bounds of the exploration

MaxCycles == 3
T0 == 20000000

-----------------------------------------------------------------------------
\* Configuration constants (controllerService.js, defaults)

MIN_ON_MS == 60000
MIN_INTERVAL_BETWEEN_ON_MS == 30000
MIN_INTERVAL_AFTER_OFF_MS == 5000
MIN_INTERVAL_BETWEEN_OFF_MS == 5000
MQTT_RETRY_COUNT == 1
MAX_ON_MS == 14400000

-----------------------------------------------------------------------------
\* JavaScript values

\* null / undefined for a Date-valued path; Dates are their getTime() >= 0
NullTs == -1
\* a JS number, and null, as telemetry field values
Num(n) == [t |-> "num", v |-> n]
JsNull == [t |-> "null"]
IsNum(x) == x.t = "num"
\* a JS string as the sequence of its characters, a boolean, NaN, and an
\* object as the function from its own property names to their values
Str(s) == [t |-> "str", s |-> s]
Bool(b) == [t |-> "bool", b |-> b]
NaN == [t |-> "nan"]
Obj(fields) == [t |-> "obj", fields |-> fields]
\* an array as the sequence of its elements
Arr(items) == [t |-> "arr", items |-> items]

\* !v is false
Truthy(v) ==
  CASE v.t = "null" -> FALSE
    [] v.t = "nan"  -> FALSE
    [] v.t = "num"  -> v.v # 0
    [] v.t = "str"  -> v.s # << >>
    [] v.t = "bool" -> v.b
    [] OTHER        -> TRUE

\* payload.name: undefined (null here) unless payload is an object with that property
Prop(payload, name) ==
  IF payload.t = "obj" /\ name \in DOMAIN payload.fields THEN payload.fields[name] ELSE JsNull

\* String.prototype.trim, on the white space used here
WhiteSpace == {" "}
RECURSIVE TrimStart(_)
TrimStart(s) == IF s # << >> /\ Head(s) \in WhiteSpace THEN TrimStart(Tail(s)) ELSE s
RECURSIVE TrimEnd(_)
TrimEnd(s) ==
  IF s # << >> /\ s[Len(s)] \in WhiteSpace THEN TrimEnd(SubSeq(s, 1, Len(s) - 1)) ELSE s
Trim(s) == TrimEnd(TrimStart(s))

\* Number(v). For a string: white space is trimmed, the empty string is 0, a
\* run of decimal digits is its value; for any other string over the
\* characters used here (no sign, point, exponent or prefix) the result is NaN.
DigitValue ==
  [c \in {"0", "1", "2", "3", "4", "5", "6", "7", "8", "9"} |->
     CASE c = "0" -> 0 [] c = "1" -> 1 [] c = "2" -> 2 [] c = "3" -> 3 [] c = "4" -> 4
       [] c = "5" -> 5 [] c = "6" -> 6 [] c = "7" -> 7 [] c = "8" -> 8 [] c = "9" -> 9]
RECURSIVE DecimalValue(_)
DecimalValue(s) ==
  IF s = << >> THEN 0
  ELSE 10 * DecimalValue(SubSeq(s, 1, Len(s) - 1)) + DigitValue[s[Len(s)]]
StringToNumber(s) ==
  LET t == Trim(s)
  IN  IF t = << >> THEN Num(0)
      ELSE IF \A i \in 1 .. Len(t) : t[i] \in DOMAIN DigitValue THEN Num(DecimalValue(t))
      ELSE NaN
ToNumber(v) ==
  CASE v.t = "num"  -> v
    [] v.t = "str"  -> StringToNumber(v.s)
    [] v.t = "bool" -> Num(IF v.b THEN 1 ELSE 0)
    [] v.t = "null" -> Num(0)
    [] OTHER        -> NaN

Max(a, b) == IF a >= b THEN a ELSE b
Min(a, b) == IF a <= b THEN a ELSE b

\* Math.round of the rational n/d (d > 0): floor(n/d + 1/2)
MathRound(n, d) == (2 * n + d) \div (2 * d)

-----------------------------------------------------------------------------
\* thresholdService.computeThreshold
\* A profile carries Kc and targetFraction in hundredths (Kc100, tf100), the
\* other fields as integers; temperature in degrees C, rain24 in mm.

DefaultProfile ==
  [Kc100 |-> 90, tf100 |-> 75, rootDepth_cm |-> 30, fieldCapacityPct |-> 40,
   wiltingPointPct |-> 10, hysteresisPct |-> 5]

safetyMargin == 3

\* if (forecast && forecast.daily && forecast.daily.length > 0)
\*   rain24 = forecast.daily[0].rain || 0
\* reading .rain of a null first entry throws a TypeError; rain is a number
\* where it is present
forecastRain(forecast) ==
  LET daily == Prop(forecast, "daily")
  IN  IF ~Truthy(forecast) \/ ~Truthy(daily) THEN [threw |-> FALSE, rain24 |-> 0]
      ELSE IF ~(daily.t = "arr" /\ Len(daily.items) > 0) THEN [threw |-> FALSE, rain24 |-> 0]
      ELSE IF daily.items[1].t = "null" THEN [threw |-> TRUE, rain24 |-> 0]
      ELSE LET rain == Prop(daily.items[1], "rain")
           IN  [threw |-> FALSE, rain24 |-> IF Truthy(rain) THEN rain.v ELSE 0]

\* thresholdService.js: the statement stands unguarded in computeThreshold
serverRain24(forecast) == forecastRain(forecast)

\* threshold.js: try { ... } catch (e) { rain24 = 0; }
clientRain24(forecast) ==
  IF forecastRain(forecast).threw THEN [threw |-> FALSE, rain24 |-> 0]
  ELSE forecastRain(forecast)

\* tDay = telemetry.temperature ?? (forecast.current.temp ?? 25)
TDay(temperature, forecastTemp) ==
  IF IsNum(temperature) THEN temperature.v
  ELSE IF IsNum(forecastTemp) THEN forecastTemp.v ELSE 25

\* variant: the expected rain adds to the deficit
DeficitMilli_RainAdds(p, tDay, rain24) ==
  Max(0, Max(0, tDay - 10) * p.Kc100 + rain24 * 800)

\* water_deficit_mm * 1000 = max(0, ETc - rainEff) * 1000
\*   ETo = max(0, 0.1*(tDay-10)), ETc = ETo*Kc, rainEff = rain24*0.8
DeficitMilli(p, tDay, rain24) ==
  Max(0, Max(0, tDay - 10) * p.Kc100 - rain24 * 800)

mmPerPct(p) == Max(5, (p.rootDepth_cm * 10) \div 10)

\* raw_threshold_on = baselinePct + deltaPct, as a numerator over ThrDen(p)
ThrDen(p) == 1000 * mmPerPct(p)
RawThresholdOnNum(p, tDay, rain24) ==
  p.fieldCapacityPct * p.tf100 * 10 * mmPerPct(p) + DeficitMilli(p, tDay, rain24)

ThresholdOn(p, tDay, rain24) ==
  LET den == ThrDen(p)
      lo  == (p.wiltingPointPct + safetyMargin) * den
      hi  == (p.fieldCapacityPct - safetyMargin) * den
  IN  MathRound(Max(lo, Min(hi, RawThresholdOnNum(p, tDay, rain24))), den)

\* variant: the hysteresis is left out
ThresholdOff_NoHysteresis(p, thrOn) == MathRound(Min(100, thrOn), 1)

ThresholdOff(p, thrOn) == MathRound(Min(100, thrOn + p.hysteresisPct), 1)

computeThreshold(p, temperature, forecastTemp, rain24) ==
  LET on == ThresholdOn(p, TDay(temperature, forecastTemp), rain24)
  IN  [threshold_on |-> on, threshold_off |-> ThresholdOff(p, on)]

\* A cropProfile argument may lack any field: Absent stands for undefined, ""
\* for no name.
Absent == -1
CropProfile(name, Kc100, tf100, rootDepth_cm, fieldCapacityPct, wiltingPointPct, hysteresisPct) ==
  [name |-> name, Kc100 |-> Kc100, tf100 |-> tf100, rootDepth_cm |-> rootDepth_cm,
   fieldCapacityPct |-> fieldCapacityPct, wiltingPointPct |-> wiltingPointPct,
   hysteresisPct |-> hysteresisPct]
EmptyProfile == CropProfile("", Absent, Absent, Absent, Absent, Absent, Absent)

\* name.toLowerCase() on the crop names used
ToLowerCase(name) == IF name = "Tomato" THEN "tomato" ELSE name

\* Crop.findOne({ name }).lean().exec() on the store: the document, or null
\* (a document has no hysteresisPct: CropProfileSchema declares none)
CropFindOne(store, name) ==
  IF name \in DOMAIN store THEN [store[name] EXCEPT !.hysteresisPct = Absent] ELSE EmptyProfile

\* x ?? dflt
OrDefault(x, dflt) == IF x = Absent THEN dflt ELSE x

\* lines 13-30: the profile merged with the store's document when a name is
\* given without a truthy Kc ({ ...fromDb, ...profile }), then the defaults
mergeProfile(cropProfile, store) ==
  LET lookup == cropProfile.name # "" /\ (cropProfile.Kc100 = Absent \/ cropProfile.Kc100 = 0)
      fromDb == IF lookup THEN CropFindOne(store, ToLowerCase(cropProfile.name))
                ELSE EmptyProfile
      pick(own, db) == IF own # Absent THEN own ELSE db
  IN  [Kc100 |-> OrDefault(pick(cropProfile.Kc100, fromDb.Kc100), DefaultProfile.Kc100),
       tf100 |-> OrDefault(pick(cropProfile.tf100, fromDb.tf100), DefaultProfile.tf100),
       rootDepth_cm |-> OrDefault(pick(cropProfile.rootDepth_cm, fromDb.rootDepth_cm),
                                  DefaultProfile.rootDepth_cm),
       fieldCapacityPct |-> OrDefault(pick(cropProfile.fieldCapacityPct, fromDb.fieldCapacityPct),
                                      DefaultProfile.fieldCapacityPct),
       wiltingPointPct |-> OrDefault(pick(cropProfile.wiltingPointPct, fromDb.wiltingPointPct),
                                     DefaultProfile.wiltingPointPct),
       hysteresisPct |-> OrDefault(pick(cropProfile.hysteresisPct, fromDb.hysteresisPct),
                                   DefaultProfile.hysteresisPct)]

\* the server's computeThreshold on its arguments and the crop-profile store
serverComputeThreshold(cropProfile, store, temperature, forecastTemp, rain24) ==
  LET p == mergeProfile(cropProfile, store)
      r == computeThreshold(p, temperature, forecastTemp, rain24)
  IN  [threshold_on |-> r.threshold_on, threshold_off |-> r.threshold_off, details |-> p]

\* frontend/src/utils/threshold.js: no store; clamp(v, a, b) = max(a, min(b, v))
clamp(v, a, b) == Max(a, Min(b, v))
clientComputeThreshold(cropProfile, temperature, forecastTemp, rain24) ==
  LET p   == mergeProfile(cropProfile, << >>)
      den == ThrDen(p)
      on  == MathRound(clamp(RawThresholdOnNum(p, TDay(temperature, forecastTemp), rain24),
                             (p.wiltingPointPct + safetyMargin) * den,
                             (p.fieldCapacityPct - safetyMargin) * den), den)
  IN  [threshold_on |-> on,
       threshold_off |-> MathRound(clamp(on + p.hysteresisPct, on, 100), 1),
       details |-> p]

\* IrrigationControl.js: const cropDefaults = { tomato: ..., soybean: ... }
cropDefaultsTable ==
  [n \in {"tomato", "maize", "wheat", "potato", "cotton", "sugarcane", "banana", "soybean"} |->
     CASE n = "tomato"    -> CropProfile("", 90, 75, 30, 40, 10, 5)
       [] n = "maize"     -> CropProfile("", 115, 70, 50, 40, 10, 5)
       [] n = "wheat"     -> CropProfile("", 80, 65, 40, 40, 10, 5)
       [] n = "potato"    -> CropProfile("", 100, 75, 30, 40, 10, 4)
       [] n = "cotton"    -> CropProfile("", 95, 70, 50, 40, 10, 5)
       [] n = "sugarcane" -> CropProfile("", 120, 80, 60, 45, 12, 6)
       [] n = "banana"    -> CropProfile("", 110, 80, 60, 45, 12, 6)
       [] n = "soybean"   -> CropProfile("", 90, 70, 40, 40, 10, 5)]

\* runAutoCheck: cropKey = (zone.crop || '').toLowerCase();
\* cropProfile = cropDefaults[cropKey] || { Kc: 0.9, targetFraction: 0.7, ... }
\* (crop "" stands for an unset crop)
clientCropProfile(crop) ==
  LET cropKey == ToLowerCase(crop)
  IN  IF cropKey \in DOMAIN cropDefaultsTable THEN cropDefaultsTable[cropKey]
      ELSE CropProfile("", 90, 70, 30, 40, 10, 5)

\* handleTelemetryMessage:
\* cropName = (payload.crop || payload.cropName || 'tomato').toString().toLowerCase()
serverCropName(crop) == ToLowerCase(IF crop # "" THEN crop ELSE "tomato")

\* cropProfile = await Crop.findOne({ name: cropName }) (null on any error);
\* profileForCompute = cropProfile ? { ...cropProfile }
\*                                 : { name: cropName, Kc: 0.9, targetFraction: 0.75, ... }
profileForCompute(store, crop) ==
  LET cropName == serverCropName(crop)
      doc      == CropFindOne(store, cropName)
  IN  IF doc # EmptyProfile THEN doc ELSE CropProfile(cropName, 90, 75, 30, 40, 10, 5)

\* the band each side derives for one crop and one telemetry; the dashboard
\* passes forecast = {}, the controller null when the payload has no position
clientBand(crop, temperature) ==
  clientComputeThreshold(clientCropProfile(crop), temperature, JsNull, 0)
serverBand(store, crop, temperature) ==
  serverComputeThreshold(profileForCompute(store, crop), store, temperature, JsNull, 0)

-----------------------------------------------------------------------------
\* Models

Devices == {"A", "B", "unknown"}

\* DeviceState schema paths that hold the relay state machine
DeviceStateSchemaPaths == {"relayState", "lastActionTs", "lastOnTs"}

\* IrrigationEvent.action enum
IrrigationEventActions ==
  {"ON", "OFF", "RECOMMEND_ON", "RECOMMEND_OFF", "FORCE_ON", "FORCE_OFF"}

\* A document object: exists is FALSE for "no document" (findOne gave null, or
\* state is undefined); a path that was never set holds NullTs.
NoDoc ==
  [exists |-> FALSE, relayState |-> FALSE, lastActionTs |-> NullTs,
   lastOnTs |-> NullTs, lastOffTs |-> NullTs]

\* a path survives create()/save() only if the schema declares it
PersistedTs(path, v) == IF path \in DeviceStateSchemaPaths THEN v ELSE NullTs

\* what create()/save() leaves in the collection for the object doc
Persisted(doc) ==
  [exists |-> TRUE, relayState |-> doc.relayState,
   lastActionTs |-> PersistedTs("lastActionTs", doc.lastActionTs),
   lastOnTs |-> PersistedTs("lastOnTs", doc.lastOnTs),
   lastOffTs |-> PersistedTs("lastOffTs", doc.lastOffTs)]

\* state.lastOnTs ? new Date(state.lastOnTs).getTime() : 0
TsOrZero(ts) == IF ts = NullTs THEN 0 ELSE ts

\* map[key] on an object literal also finds what every object inherits from
\* Object.prototype: for these keys the lookup gives a function (an object for
\* __proto__), which is truthy. InheritedValue(key) stands for that value,
\* which is not a string.
ObjectPrototypeKeys ==
  {"constructor", "hasOwnProperty", "isPrototypeOf", "propertyIsEnumerable",
   "toLocaleString", "toString", "valueOf", "__proto__",
   "__defineGetter__", "__defineSetter__", "__lookupGetter__", "__lookupSetter__"}
InheritedValue(key) == "[Object.prototype." \o key \o "]"

\* const map = { A: 'esp32/relay1', B: 'esp32/relay2' };
\* return map[zoneId] || `esp32/relay/${zoneId}`
zoneToRelayTopic(zoneId) ==
  IF zoneId = "A" THEN "esp32/relay1"
  ELSE IF zoneId = "B" THEN "esp32/relay2"
  ELSE IF zoneId \in ObjectPrototypeKeys THEN InheritedValue(zoneId)
  ELSE "esp32/relay/" \o zoneId

-----------------------------------------------------------------------------
\* publishManyFormats: three encodings, MQTT_RETRY_COUNT + 1 attempts each.
\* att[f][i] is whether attempt i of encoding f is acknowledged.

Formats == <<"plain", "numeric", "json">>
Attempts == 1 .. (MQTT_RETRY_COUNT + 1)

\* how one attempt ends: tryPublish gives ok, or the rejection of
\* mqttClient.publish: an Error, or no value at all
AttemptOutcomes == {"ok", "error", "undefined"}
ErrTruthy(e) == e = "error"

\* results = { successes: [], failures: {} } before the first encoding
PubStart ==
  [f |-> 1, attempt |-> 0, lastErr |-> "null", waiting |-> FALSE,
   successes |-> << >>, failures |-> {}, attempts |-> << >>, outcomes |-> << >>,
   done |-> FALSE]

\* await tryPublish(topic, fmt.payload): the attempt is handed to the client
publishIssue(st) ==
  [st EXCEPT !.waiting = TRUE, !.attempts = Append(@, <<Formats[st.f], st.attempt>>)]

\* the attempt settles with outcome o: success pushes the name and breaks;
\* a rejection sets lastErr and retries while attempt < MQTT_RETRY_COUNT;
\* leaving the inner loop, if (lastErr) records the failure
publishSettle(st, o) ==
  LET name    == Formats[st.f]
      lastErr == IF o = "ok" THEN "null" ELSE o
      leaves  == o = "ok" \/ st.attempt >= MQTT_RETRY_COUNT
  IN  IF ~leaves
      THEN [st EXCEPT !.waiting = FALSE, !.attempt = @ + 1, !.lastErr = lastErr,
                      !.outcomes = Append(@, o)]
      ELSE [st EXCEPT !.waiting = FALSE, !.attempt = 0, !.lastErr = "null",
                      !.f = IF st.f < Len(Formats) THEN @ + 1 ELSE @,
                      !.successes = IF o = "ok" THEN Append(@, name) ELSE @,
                      !.failures = IF ErrTruthy(lastErr) THEN @ \cup {name} ELSE @,
                      !.outcomes = Append(@, o),
                      !.done = st.f = Len(Formats)]

\* the whole loop, out[f][i] being how attempt i of encoding f ends
\* (nx ranges over a singleton so that each iteration's state is computed once)
RECURSIVE publishRun(_, _)
publishRun(st, out) ==
  IF st.done THEN st
  ELSE CHOOSE r \in
         {publishRun(nx, out) :
            nx \in {publishSettle(publishIssue(st), out[Formats[st.f]][st.attempt + 1])}} :
         TRUE

publishManyFormats(att) ==
  LET out == [f \in DOMAIN att |-> [i \in Attempts |-> IF att[f][i] THEN "ok" ELSE "error"]]
      r   == publishRun(PubStart, out)
  IN  [successes |-> {r.successes[k] : k \in 1 .. Len(r.successes)},
       failures  |-> r.failures]

AllAcked  == [f \in {"plain", "numeric", "json"} |-> [i \in Attempts |-> TRUE]]
NoneAcked == [f \in {"plain", "numeric", "json"} |-> [i \in Attempts |-> FALSE]]
JsonOnRetry ==
  [f \in {"plain", "numeric", "json"} |-> [i \in Attempts |-> f = "json" /\ i = 2]]

\* broker behaviours explored per cycle
PubScenarios == {NoneAcked, JsonOnRetry}

\* devices whose telemetry is explored
TelemetryDevices == {"A"}

-----------------------------------------------------------------------------
\* handleTelemetryMessage, step by step

\* normalizeSoil: null for null/undefined; a string is trimmed and loses one
\* trailing '%'; then Number(raw), kept when finite
normalizeSoil(raw) ==
  IF raw.t = "null" THEN JsNull
  ELSE LET trimmed  == IF raw.t = "str" THEN Trim(raw.s) ELSE << >>
           stripped == IF trimmed # << >> /\ trimmed[Len(trimmed)] = "%"
                       THEN SubSeq(trimmed, 1, Len(trimmed) - 1) ELSE trimmed
           n == ToNumber(IF raw.t = "str" THEN Str(stripped) ELSE raw)
       IN  IF IsNum(n) THEN n ELSE JsNull

\* A message as handed over by the MQTT client: json tells whether its text
\* is JSON, value is the value the text encodes.
JsonText(v) == [json |-> TRUE, value |-> v]
NotJsonText == [json |-> FALSE, value |-> JsNull]

\* safeParseJSON: JSON.parse of the text; null when it throws
safeParseJSON(v) == IF v.json THEN v.value ELSE JsNull

\* deviceId = payload.deviceId || payload.zoneId || payload.id || 'unknown'
RECURSIVE StringOf(_)
StringOf(s) == IF s = << >> THEN "" ELSE Head(s) \o StringOf(Tail(s))
FirstTruthy(a, b) == IF Truthy(a) THEN a ELSE b
PayloadDeviceId(payload) ==
  LET id == FirstTruthy(Prop(payload, "deviceId"),
              FirstTruthy(Prop(payload, "zoneId"), Prop(payload, "id")))
  IN  IF Truthy(id) /\ id.t = "str" THEN StringOf(id.s) ELSE "unknown"

\* payload.soilPct ?? payload.soil ?? null
PayloadSoil(payload) ==
  IF Prop(payload, "soilPct").t # "null" THEN Prop(payload, "soilPct")
  ELSE Prop(payload, "soil")

\* variant: the query carries no filter and returns the first device's document
byDeviceId_NoFilter(collection, deviceId) == collection["A"]

\* the filter { deviceId } of DeviceState.findOne
byDeviceId(collection, deviceId) == collection[deviceId]

\* variant: a document kept in memory is used in place of the stored one
findOne_HeldFirst(stored, held) == IF held.exists THEN held ELSE stored

\* state = await DeviceState.findOne({ deviceId }).exec(): the stored document;
\* a document held in memory from an earlier cycle plays no part
findOne(stored, held) == stored

\* variant: the record is created with the relay on
NewDeviceState_RelayOn ==
  Persisted([relayState |-> TRUE, lastActionTs |-> NullTs, lastOnTs |-> NullTs,
             lastOffTs |-> NullTs])

\* DeviceState.create({relayState: false, lastActionTs: null, lastOnTs: null, lastOffTs: null, ...})
NewDeviceState ==
  Persisted([relayState |-> FALSE, lastActionTs |-> NullTs, lastOnTs |-> NullTs,
             lastOffTs |-> NullTs])

\* relayIsOn = !!(state && state.relayState)
RelayIsOn(state) == state.exists /\ state.relayState
\* lastOnTs / lastOffTs as the cycle reads them
ReadLastOnTs(state) == IF state.exists THEN TsOrZero(state.lastOnTs) ELSE 0
ReadLastOffTs(state) == IF state.exists THEN TsOrZero(state.lastOffTs) ELSE 0

\* variant: the limit taken in the wrong unit
WatchdogFires_WrongUnit(relayIsOn, lastOnTs, t) ==
  relayIsOn /\ (t - lastOnTs > MAX_ON_MS * 60)

\* if (relayIsOn) { timeOn = now - lastOnTs; if (timeOn > MAX_ON_MS) ... }
WatchdogFires(relayIsOn, lastOnTs, t) == relayIsOn /\ (t - lastOnTs > MAX_ON_MS)

\* variant: the relay state is not consulted
OnCondition_IgnoresRelay(soilPct, threshold_on, relayIsOn) ==
  soilPct.v <= threshold_on

\* if (soilPct <= threshold_on && !relayIsOn)
OnCondition(soilPct, threshold_on, relayIsOn) ==
  soilPct.v <= threshold_on /\ ~relayIsOn

\* variant: the after-OFF interval used on both branches
OnGate_OneInterval(lastOnTs, lastOffTs, t) ==
  IF lastOffTs > lastOnTs
  THEN IF t - lastOffTs >= MIN_INTERVAL_AFTER_OFF_MS
       THEN [allowOn |-> TRUE,  blockReason |-> "allow_after_off"]
       ELSE [allowOn |-> FALSE, blockReason |-> "blocked_after_off_wait"]
  ELSE IF t - lastOnTs >= MIN_INTERVAL_AFTER_OFF_MS
       THEN [allowOn |-> TRUE,  blockReason |-> "allow_by_min_between_on"]
       ELSE [allowOn |-> FALSE, blockReason |-> "blocked_by_min_between_on"]

\* compute gating: allowOn and blockReason
OnGate(lastOnTs, lastOffTs, t) ==
  IF lastOffTs > lastOnTs
  THEN IF t - lastOffTs >= MIN_INTERVAL_AFTER_OFF_MS
       THEN [allowOn |-> TRUE,  blockReason |-> "allow_after_off"]
       ELSE [allowOn |-> FALSE, blockReason |-> "blocked_after_off_wait"]
  ELSE IF t - lastOnTs >= MIN_INTERVAL_BETWEEN_ON_MS
       THEN [allowOn |-> TRUE,  blockReason |-> "allow_by_min_between_on"]
       ELSE [allowOn |-> FALSE, blockReason |-> "blocked_by_min_between_on"]

\* if (soilPct >= threshold_off && relayIsOn)
OffCondition(soilPct, threshold_off, relayIsOn) ==
  soilPct.v >= threshold_off /\ relayIsOn

\* variant: the OFF interval taken for the minimum on-time
MinOnLeft_WrongConstant(lastOnTs, t) ==
  Max(0, MIN_INTERVAL_BETWEEN_OFF_MS - (t - lastOnTs))

\* minOnLeft = Math.max(0, MIN_ON_MS - sinceOn)
MinOnLeft(lastOnTs, t) == Max(0, MIN_ON_MS - (t - lastOnTs))

\* variant: the comparison of the OFF interval turned round
OffIntervalBlocks_Reversed(lastOffTs, t) == t - lastOffTs >= MIN_INTERVAL_BETWEEN_OFF_MS

\* sinceLastOff < MIN_INTERVAL_BETWEEN_OFF_MS
OffIntervalBlocks(lastOffTs, t) == t - lastOffTs < MIN_INTERVAL_BETWEEN_OFF_MS

\* variant: the publish result is not consulted (as in the watchdog branch)
Delivered_Unchecked(pubRes) == pubRes.failures \subseteq {"plain", "numeric", "json"}

\* pubRes.successes.length > 0
Delivered(pubRes) == pubRes.successes # {}

Outcome(cmd, pubRes, action, reason) ==
  [cmd |-> cmd, successes |-> IF cmd = "NONE" THEN {} ELSE pubRes.successes,
   action |-> action, reason |-> reason]

\* The decision of one cycle: the command handed to publishManyFormats ("NONE"
\* when none is), and the (action, reason) handed to persistEvent.
Decide(relayIsOn, lastOnTs, lastOffTs, soilPct, thr, t, pubRes, debugReon) ==
  IF WatchdogFires(relayIsOn, lastOnTs, t)
  THEN Outcome("OFF", pubRes, "OFF", "watchdog_forced_off")
  ELSE IF soilPct.t = "null"
  THEN Outcome("NONE", pubRes, "RECOMMEND", "no_numeric_soil")
  ELSE IF OnCondition(soilPct, thr.threshold_on, relayIsOn)
  THEN IF debugReon
       THEN IF Delivered(pubRes)
            THEN Outcome("ON", pubRes, "ON", "debug_force_on")
            ELSE Outcome("ON", pubRes, "RECOMMEND", "debug_publish_failed_on")
       ELSE LET gate == OnGate(lastOnTs, lastOffTs, t)
            IN  IF gate.allowOn
                THEN IF Delivered(pubRes)
                     THEN Outcome("ON", pubRes, "ON", "soil_below_threshold_on")
                     ELSE Outcome("ON", pubRes, "RECOMMEND", "publish_failed_on")
                ELSE Outcome("NONE", pubRes, "RECOMMEND", gate.blockReason)
  ELSE IF OffCondition(soilPct, thr.threshold_off, relayIsOn)
  THEN IF MinOnLeft(lastOnTs, t) > 0
       THEN Outcome("NONE", pubRes, "RECOMMEND", "min_on_not_elapsed")
       ELSE IF OffIntervalBlocks(lastOffTs, t)
       THEN Outcome("NONE", pubRes, "RECOMMEND", "min_interval_between_off_not_elapsed")
       ELSE IF Delivered(pubRes)
       THEN Outcome("OFF", pubRes, "OFF", "soil_above_threshold_off")
       ELSE Outcome("OFF", pubRes, "RECOMMEND", "publish_failed_off")
  ELSE Outcome("NONE", pubRes, "RECOMMEND", "no_action")

\* variant: ON records the timestamps but not the relay state
persistEventDoc_OnKeepsRelay(state, action, t) ==
  IF action = "ON"
  THEN [state EXCEPT !.lastOnTs = t, !.lastActionTs = t]
  ELSE IF action = "OFF"
  THEN [state EXCEPT !.relayState = FALSE, !.lastOffTs = t, !.lastActionTs = t]
  ELSE [state EXCEPT !.lastActionTs = t]

\* variant: every outcome records the time as lastOnTs
persistEventDoc_AlwaysStampsOn(state, action, t) ==
  IF action = "ON"
  THEN [state EXCEPT !.relayState = TRUE, !.lastOnTs = t, !.lastActionTs = t]
  ELSE IF action = "OFF"
  THEN [state EXCEPT !.relayState = FALSE, !.lastOffTs = t, !.lastActionTs = t]
  ELSE [state EXCEPT !.lastOnTs = t, !.lastActionTs = t]

\* persistEvent: the assignments made to the loaded document before save()
persistEventDoc(state, action, t) ==
  IF action = "ON"
  THEN [state EXCEPT !.relayState = TRUE, !.lastOnTs = t, !.lastActionTs = t]
  ELSE IF action = "OFF"
  THEN [state EXCEPT !.relayState = FALSE, !.lastOffTs = t, !.lastActionTs = t]
  ELSE [state EXCEPT !.lastActionTs = t]

\* logIrrigationEvent: IrrigationEvent.create validates action against the
\* schema enum; a validation error is caught and the event is not stored
logIrrigationEvent(log, ev) ==
  IF ev.action \in IrrigationEventActions THEN Append(log, ev) ELSE log

-----------------------------------------------------------------------------
\* Inputs explored

\* time between two operations (ms): within MIN_INTERVAL_AFTER_OFF_MS, within
\* MIN_INTERVAL_BETWEEN_ON_MS, at MIN_ON_MS, and past MAX_ON_MS
Deltas == {1000, 10000, 60000, MAX_ON_MS + 1}

\* payload.soilPct values: unreadable, below threshold_on, inside the band, above threshold_off
SoilValues == {JsNull, Num(28), Num(32), Num(36)}

\* payload.temperature
Temperature == Num(25)

-----------------------------------------------------------------------------
\* frontend/src/pages/IrrigationControl.js: the dashboard's own controller

UI_MIN_ON_MS == 60000
MIN_INTERVAL_MS == 300000

Zones == <<"A", "B">>
ZoneIds == {Zones[k] : k \in 1 .. Len(Zones)}

\* cropDefaults[zone.crop] for defaultZones: A grows tomato, B maize
cropDefaults(zoneId) ==
  IF zoneId = "A" THEN CropProfile("", 90, 75, 30, 40, 10, 5)
  ELSE CropProfile("", 115, 70, 50, 40, 10, 5)

\* zoneToTopic[zoneId] || `esp32/relay/${zoneId}`
zoneToTopic(zoneId) ==
  IF zoneId = "A" THEN "esp32/relay1"
  ELSE IF zoneId = "B" THEN "esp32/relay2"
  ELSE IF zoneId \in ObjectPrototypeKeys THEN InheritedValue(zoneId)
  ELSE "esp32/relay/" \o zoneId

\* useMqttPublish: publish sends only while the client is connected, else it
\* only warns; sent is what went out to the broker
publish(sent, connected, topic, message) ==
  IF connected THEN Append(sent, [topic |-> topic, message |-> message]) ELSE sent

\* publishRelay(zoneId, action)
publishRelay(sent, connected, zoneId, action) ==
  publish(sent, connected, zoneToTopic(zoneId), action)

\* stateRef.current[zoneId] || { relayState: false, lastActionTs: 0, lastOnTs: 0 }
NoRuntime == [exists |-> FALSE, relayState |-> FALSE, lastActionTs |-> 0, lastOnTs |-> 0]
RuntimeOf(stateRef, zoneId) ==
  IF stateRef[zoneId].exists THEN stateRef[zoneId] ELSE [NoRuntime EXCEPT !.exists = TRUE]

\* zoneStatus[zoneId] || {}: relayState is "unset" until an action sets it
NoStatus ==
  [exists |-> FALSE, manualLocked |-> FALSE, lastChecked |-> 0, currentSoil |-> JsNull,
   threshold_on |-> 0, threshold_off |-> 0, relayState |-> "unset", lastActionTs |-> 0,
   info |-> ""]

\* soilRaw: a trailing '%' of a string is cut; null stays null, else Number(soilRaw)
currentSoilOf(soilRaw) ==
  IF soilRaw.t = "null" THEN JsNull
  ELSE IF soilRaw.t = "str" /\ soilRaw.s # << >> /\ soilRaw.s[Len(soilRaw.s)] = "%"
       THEN ToNumber(Str(SubSeq(soilRaw.s, 1, Len(soilRaw.s) - 1)))
       ELSE ToNumber(soilRaw)

\* variant: the manual flag is not looked at
ManualLocked_Ignored(zone) == FALSE

\* if (zone.manualOn) { ...; continue; }
ManualLocked(zone) == zone.manualOn

\* forceAction: what it writes to the zone's runtime state
forceRuntime(st, action, t) ==
  IF action = "ON"
  THEN [st EXCEPT !.relayState = TRUE, !.lastActionTs = t, !.lastOnTs = t]
  ELSE [st EXCEPT !.relayState = FALSE, !.lastActionTs = t]

\* one zone of runAutoCheck at time t with reading soilRaw; u carries zones,
\* stateRef, zoneStatus (nextStatus is merged over it at the end), sent
checkZone(u, zoneId, soilRaw, t) ==
  IF ManualLocked(u.zones[zoneId])
  THEN [u EXCEPT !.zoneStatus[zoneId] =
                   [@ EXCEPT !.exists = TRUE, !.manualLocked = TRUE, !.lastChecked = t]]
  ELSE
    LET currentSoil == currentSoilOf(soilRaw)
        thr    == clientComputeThreshold(cropDefaults(zoneId), JsNull, JsNull, 0)
        st     == RuntimeOf(u.stateRef, zoneId)
        status == [u.zoneStatus[zoneId] EXCEPT
                     !.exists = TRUE, !.currentSoil = currentSoil,
                     !.threshold_on = thr.threshold_on, !.threshold_off = thr.threshold_off,
                     !.lastChecked = t]
        numeric == currentSoil.t # "null"
        onCond == numeric /\ IsNum(currentSoil) /\ currentSoil.v <= thr.threshold_on
                    /\ ~st.relayState
        onGo   == onCond /\ t - st.lastActionTs > MIN_INTERVAL_MS
        st1    == IF onGo THEN [st EXCEPT !.relayState = TRUE, !.lastActionTs = t,
                                          !.lastOnTs = t]
                  ELSE st
        offCond == numeric /\ IsNum(currentSoil) /\ currentSoil.v >= thr.threshold_off
                     /\ st1.relayState
        timeLeftMs == Max(0, UI_MIN_ON_MS - (t - st1.lastOnTs))
        offGo  == offCond /\ timeLeftMs <= 0
        st2    == IF offGo THEN [st1 EXCEPT !.relayState = FALSE, !.lastActionTs = t] ELSE st1
        sent1  == IF onGo THEN publishRelay(u.sent, u.connected, zoneId, "ON") ELSE u.sent
        sent2  == IF offGo THEN publishRelay(sent1, u.connected, zoneId, "OFF") ELSE sent1
        info   == IF ~numeric THEN "No numeric soil telemetry"
                  ELSE IF offCond /\ ~offGo THEN "Min-on not elapsed"
                  ELSE IF onCond /\ ~onGo THEN "Cooldown active"
                  ELSE status.info
    IN  [u EXCEPT
           !.stateRef[zoneId] = st2,
           !.sent = sent2,
           !.zoneStatus[zoneId] =
             [status EXCEPT !.info = info,
                            !.relayState = IF offGo THEN "off" ELSE IF onGo THEN "on" ELSE @,
                            !.lastActionTs = IF onGo \/ offGo THEN t ELSE @]]

\* runAutoCheck: for (const zone of zones) ...; setZoneStatus merges nextStatus
RECURSIVE runAutoCheck(_, _, _, _)
runAutoCheck(u, k, soilRaw, t) ==
  IF k > Len(Zones) THEN u
  ELSE runAutoCheck(checkZone(u, Zones[k], soilRaw, t), k + 1, soilRaw, t)

\* forceAction(zoneId, action)
forceAction(u, zoneId, action, t) ==
  LET st == forceRuntime(RuntimeOf(u.stateRef, zoneId), action, t)
  IN  [u EXCEPT
         !.sent = publishRelay(u.sent, u.connected, zoneId, IF action = "ON" THEN "ON" ELSE "OFF"),
         !.stateRef[zoneId] = st,
         !.zoneStatus[zoneId] =
           [@ EXCEPT !.exists = TRUE,
                     !.relayState = IF st.relayState THEN "on" ELSE "off",
                     !.lastActionTs = t]]

\* the page as mounted: defaultZones, empty stateRef and zoneStatus, the MQTT
\* client not yet connected
NoOp == [kind |-> "none", zoneId |-> "", action |-> "", soilRaw |-> JsNull]
InitUi ==
  [now |-> T0, ops |-> 0, connected |-> FALSE,
   zones |-> [z \in ZoneIds |-> [manualOn |-> FALSE]],
   stateRef |-> [z \in ZoneIds |-> NoRuntime],
   zoneStatus |-> [z \in ZoneIds |-> NoStatus],
   sent |-> << >>,
   op |-> NoOp,
   before |-> [stateRef |-> [z \in ZoneIds |-> NoRuntime],
               zoneStatus |-> [z \in ZoneIds |-> NoStatus],
               zones |-> [z \in ZoneIds |-> [manualOn |-> FALSE]],
               sent |-> << >>, connected |-> FALSE]]

-----------------------------------------------------------------------------
\* startController / stopController over lib/mqttClient.js. Clients are
\* numbered in the order mqtt.connect makes them, 0 standing for null; the
\* promise that connect() makes for client k is numbered k as well and is
\* resolved by that client's first 'connect' event.

\* callers of startController whose calls may overlap
Starters == {"s1", "s2"}

\* module state when the process starts: let subscribed = false,
\* let client = null, let readyPromise = null
InitCtl ==
  [subscribed |-> FALSE, client |-> 0, readyPromise |-> 0, made |-> 0,
   resolved |-> {}, ended |-> {}, listeners |-> << >>,
   pc |-> [p \in Starters |-> "idle"], awaits |-> [p \in Starters |-> 0],
   subOn |-> [p \in Starters |-> 0],
   stopPc |-> "idle", stopOn |-> 0, calls |-> 0, overlapped |-> FALSE, invoked |-> 0]

\* client.connected (connection losses between 'connect' and end are left out)
Connected(c, k) == k # 0 /\ k \in c.resolved /\ k \notin c.ended

\* connect(): the module state afterwards and the promise returned
\*   if (client && client.connected) return Promise.resolve(client);
\*   if (readyPromise) return readyPromise;
\*   readyPromise = new Promise(...  client = mqtt.connect(...) ...)
connect(c) ==
  IF Connected(c, c.client) THEN [ctl |-> c, promise |-> c.client]
  ELSE IF c.readyPromise # 0 THEN [ctl |-> c, promise |-> c.readyPromise]
  ELSE [ctl |-> [c EXCEPT !.made = @ + 1, !.client = c.made + 1,
                          !.readyPromise = c.made + 1,
                          !.listeners = Append(@, 0)],
        promise |-> c.made + 1]

\* subscribe's callback: client.on('message', ...) adds one more listener
attachHandler(c, k) == [c EXCEPT !.listeners[k] = @ + 1]

\* the handler invocations one telemetry message causes: every listener of
\* every connected client is called
Invocations(c) ==
  LET live == {k \in 1 .. c.made : Connected(c, k)}
      RECURSIVE sum(_)
      sum(S) == IF S = {} THEN 0
                ELSE LET k == CHOOSE x \in S : TRUE IN c.listeners[k] + sum(S \ {k})
  IN  sum(live)

-----------------------------------------------------------------------------
\* The state machine

NoCycle ==
  [kind |-> "none", deviceId |-> "", soilPct |-> JsNull, now |-> 0, pre |-> NoDoc,
   loaded |-> FALSE, created |-> FALSE, saved |-> FALSE,
   relayIsOn |-> FALSE, lastOnTs |-> 0, lastOffTs |-> 0,
   threshold_on |-> 0, threshold_off |-> 0,
   cmd |-> "NONE", topic |-> "", successes |-> {}, action |-> "", reason |-> "",
   mem |-> NoDoc,
   logged |-> FALSE]

\* the uninterrupted controller before any telemetry
NoRef ==
  [deviceStates |-> [d \in Devices |-> NoDoc], heap |-> [d \in Devices |-> NoDoc],
   cmd |-> "NONE", successes |-> {}, action |-> "", reason |-> ""]

\* a controller that has processed nothing
NoAlone ==
  [deviceStates |-> [d \in Devices |-> NoDoc], events |-> << >>,
   cmd |-> "NONE", topic |-> "", successes |-> {}, action |-> "", reason |-> ""]

\* the handler is subscribed and has not been invoked
NoInvocation ==
  [subscribed |-> TRUE, settled |-> "none", threw |-> FALSE, failedBefore |-> FALSE,
   forecast |-> JsNull, serverRain |-> [threw |-> FALSE, rain24 |-> 0],
   clientRain |-> [threw |-> FALSE, rain24 |-> 0]]

\* no call of computeThreshold made
NoCall ==
  [done |-> FALSE, crop |-> "", cropProfile |-> EmptyProfile, store |-> << >>,
   temperature |-> JsNull, ids |-> <<"", "">>, serverTopics |-> <<"", "">>,
   clientTopics |-> <<"", "">>,
   forecastTemp |-> JsNull, rain24 |-> 0,
   server |-> [threshold_on |-> 0, threshold_off |-> 0, details |-> DefaultProfile],
   client |-> [threshold_on |-> 0, threshold_off |-> 0, details |-> DefaultProfile]]

\* invocations of the message listener's handler that may be in flight together
Handlers == {"h1", "h2"}

\* an invocation that has not started
IdleHandler ==
  [pc |-> "idle", deviceId |-> "", soilPct |-> JsNull, state |-> NoDoc,
   created |-> FALSE, rain24 |-> 0, t |-> 0,
   cmd |-> "NONE", successes |-> {}, action |-> "", reason |-> ""]

InitController ==
  /\ now = T0
  /\ deviceStates = [d \in Devices |-> NoDoc]
  /\ events = <<>>
  /\ last = NoCycle
  /\ okAct = [d \in Devices |-> "NONE"]
  /\ dbFault = [d \in Devices |-> FALSE]
  /\ committedOnAt = [d \in Devices |-> NullTs]
  /\ committedOffAt = [d \in Devices |-> NullTs]
  /\ cycles = 0
  /\ DEBUG_ALLOW_REON = FALSE
  /\ heap = [d \in Devices |-> NoDoc]

Init ==
  /\ InitController
  /\ ref = NoRef
  /\ coldStart = FALSE
  /\ inflight = [h \in Handlers |-> IdleHandler]
  /\ call = NoCall
  /\ tock = FALSE
  /\ lastMsg = NotJsonText
  /\ pub = PubStart
  /\ alone = [d \in Devices |-> NoAlone]
  /\ hnd = NoInvocation
  /\ ui = InitUi
  /\ ctl = InitCtl

\* okAct after a cycle: a delivered command becomes the last delivered
\* actuation; a stored transition of the other kind clears it
NextOkAct(prev, out, stored) ==
  IF out.cmd # "NONE" /\ out.successes # {} THEN out.cmd
  ELSE IF stored /\ out.action \in {"ON", "OFF"} /\ out.action # prev THEN "NONE"
  ELSE prev

\* One cycle of handleTelemetryMessage as a function of what it reads:
\* the stored document pre, the normalized soil, Date.now() = t, the database
\* and broker behaviour. Gives the decision and the document left in the store.
Cycle(pre, soilPct, t, loadOk, saveOk, pubRes, debugReon) ==
  LET created  == loadOk /\ ~pre.exists
      state    == IF ~loadOk THEN NoDoc ELSE IF created THEN NewDeviceState ELSE pre
      thr      == computeThreshold(DefaultProfile, Temperature, JsNull, 0)
      lastOnTs == ReadLastOnTs(state)
      lastOffTs == ReadLastOffTs(state)
      relayIsOn == RelayIsOn(state)
      out      == Decide(relayIsOn, lastOnTs, lastOffTs, soilPct, thr, t, pubRes, debugReon)
      \* persistEvent: with state undefined the assignment throws and is caught
      saved    == state.exists /\ saveOk
      mem      == IF state.exists THEN persistEventDoc(state, out.action, t) ELSE NoDoc
  IN  [created |-> created, saved |-> saved, loaded |-> loadOk,
       relayIsOn |-> relayIsOn, lastOnTs |-> lastOnTs, lastOffTs |-> lastOffTs,
       threshold_on |-> thr.threshold_on, threshold_off |-> thr.threshold_off,
       cmd |-> out.cmd, successes |-> out.successes,
       action |-> out.action, reason |-> out.reason,
       mem |-> mem,
       \* a failed findOne/create leaves the collection as it was
       stored |-> IF saved THEN Persisted(mem) ELSE IF loadOk THEN state ELSE pre]

\* One telemetry message for device d, processed from arrival to event append.
\*   dt      time elapsed since the previous operation
\*   loadOk  DeviceState.findOne / create succeed (else state stays undefined)
\*   saveOk  state.save() in persistEvent succeeds
\*   att     acknowledgements of the publish attempts
HandleTelemetry(d, rawSoil, dt, loadOk, saveOk, att) ==
  /\ cycles < MaxCycles
  /\ \E c \in {Cycle(findOne(byDeviceId(deviceStates, d), heap[d]), normalizeSoil(rawSoil), now + dt,
                     loadOk, saveOk, publishManyFormats(att), DEBUG_ALLOW_REON)} :
      /\ cycles' = cycles + 1
      /\ now' = now + dt
      /\ deviceStates' = [deviceStates EXCEPT ![d] = c.stored]
      /\ events' = logIrrigationEvent(events,
                     [deviceId |-> d, action |-> c.action, reason |-> c.reason,
                      timestamp |-> now + dt])
      /\ okAct' = [okAct EXCEPT ![d] = NextOkAct(okAct[d], c, c.saved)]
      /\ dbFault' = [dbFault EXCEPT ![d] = dbFault[d] \/ ~c.saved]
      /\ committedOnAt' = [committedOnAt EXCEPT
                             ![d] = IF c.saved /\ c.action = "ON" THEN now + dt ELSE @]
      /\ committedOffAt' = [committedOffAt EXCEPT
                              ![d] = IF c.saved /\ c.action = "OFF" THEN now + dt ELSE @]
      /\ last' = [kind |-> "cycle", deviceId |-> d, soilPct |-> normalizeSoil(rawSoil),
                  now |-> now + dt, pre |-> deviceStates[d],
                  loaded |-> c.loaded, created |-> c.created, saved |-> c.saved,
                  relayIsOn |-> c.relayIsOn, lastOnTs |-> c.lastOnTs,
                  lastOffTs |-> c.lastOffTs,
                  threshold_on |-> c.threshold_on, threshold_off |-> c.threshold_off,
                  cmd |-> c.cmd, successes |-> c.successes,
                  topic |-> IF c.cmd = "NONE" THEN "" ELSE zoneToRelayTopic(d),
                  action |-> c.action, reason |-> c.reason, mem |-> c.mem,
                  logged |-> Len(events') = Len(events) + 1]
      /\ heap' = [heap EXCEPT ![d] = c.mem]
      /\ UNCHANGED DEBUG_ALLOW_REON

\* what the database and the broker do during one cycle
Env(loadOk, saveOk, att) == [loadOk |-> loadOk, saveOk |-> saveOk, att |-> att]
Envs ==
  {Env(TRUE, TRUE, att) : att \in PubScenarios}
    \cup {Env(FALSE, TRUE, AllAcked), Env(TRUE, FALSE, AllAcked)}

Telemetry ==
  /\ cycles < MaxCycles
  /\ \E d \in TelemetryDevices, rawSoil \in SoilValues, dt \in Deltas, e \in Envs :
       HandleTelemetry(d, rawSoil, dt, e.loadOk, e.saveOk, e.att)
  /\ UNCHANGED auxVars

Next == Telemetry

Spec == Init /\ [][Next]_vars

-----------------------------------------------------------------------------
\* Debug route POST /api/irrigation/debug/force-state (irrigationDebug.js)

\* body.lastOnTs / body.lastOffTs: 0 (absent or falsy) or a timestamp, given
\* here as "now minus an offset"
ForceOffsets == {0, 20000}
ForceTimestamps == {0} \cup {now - o : o \in ForceOffsets}

\* findOneAndUpdate({deviceId}, {$set: update}, {upsert: true}): the update
\* holds relayState when the body gives a boolean, lastOnTs / lastOffTs when
\* the body gives a truthy value; only schema paths are written
forceStateUpdate(pre, hasRelay, relayState, lastOnTs, lastOffTs) ==
  LET base == IF pre.exists THEN pre ELSE NewDeviceState
  IN  [base EXCEPT
         !.relayState = IF hasRelay THEN relayState ELSE @,
         !.lastOnTs   = IF lastOnTs # 0 THEN PersistedTs("lastOnTs", lastOnTs) ELSE @,
         !.lastOffTs  = IF lastOffTs # 0 THEN PersistedTs("lastOffTs", lastOffTs) ELSE @]

ForceState(d, hasRelay, relayState, lastOnTs, lastOffTs) ==
  /\ cycles < MaxCycles
  /\ cycles' = cycles + 1
  /\ deviceStates' = [deviceStates EXCEPT
                        ![d] = forceStateUpdate(@, hasRelay, relayState, lastOnTs, lastOffTs)]
  /\ last' = [NoCycle EXCEPT !.kind = "force", !.deviceId = d, !.now = now,
                             !.pre = deviceStates[d]]
  /\ UNCHANGED <<now, events, okAct, dbFault, committedOnAt, committedOffAt,
                 DEBUG_ALLOW_REON, heap>>

ForceStateRoute ==
  /\ cycles < MaxCycles
  /\ \E d \in TelemetryDevices, hasRelay \in BOOLEAN, relayState \in BOOLEAN,
        lastOnTs \in ForceTimestamps, lastOffTs \in ForceTimestamps :
       /\ (~hasRelay => relayState = FALSE)
       /\ ForceState(d, hasRelay, relayState, lastOnTs, lastOffTs)
  /\ UNCHANGED auxVars

\* telemetry cycles during which the database answers
TelemetryDbOk ==
  /\ cycles < MaxCycles
  /\ \E d \in TelemetryDevices, rawSoil \in SoilValues, dt \in Deltas, att \in PubScenarios :
       HandleTelemetry(d, rawSoil, dt, TRUE, TRUE, att)
  /\ UNCHANGED auxVars

NextDebug == TelemetryDbOk \/ ForceStateRoute

\* the controller together with an operator using the debug route
SpecDebug == Init /\ [][NextDebug]_vars

-----------------------------------------------------------------------------
\* Process restarts: the module state of controllerService and every document
\* object held by the process are lost; the collections are kept.

\* the reference controller processes the same message in the same environment
RefCycle(d, rawSoil, dt, att) ==
  LET c == Cycle(findOne(ref.deviceStates[d], ref.heap[d]), normalizeSoil(rawSoil), now + dt,
                 TRUE, TRUE, publishManyFormats(att), DEBUG_ALLOW_REON)
  IN  [deviceStates |-> [ref.deviceStates EXCEPT ![d] = c.stored],
       heap |-> [ref.heap EXCEPT ![d] = c.mem],
       cmd |-> c.cmd, successes |-> c.successes, action |-> c.action, reason |-> c.reason]

\* one telemetry message, handled by the controller and by the reference
TelemetryBoth ==
  /\ cycles < MaxCycles
  /\ \E d \in TelemetryDevices, rawSoil \in SoilValues, dt \in Deltas, att \in PubScenarios :
       /\ HandleTelemetry(d, rawSoil, dt, TRUE, TRUE, att)
       /\ ref' = RefCycle(d, rawSoil, dt, att)
       /\ coldStart' = ~heap[d].exists
  /\ UNCHANGED <<asyncVars, thrVars, clockVars, msgVars, unitVars>>

\* the process exits and is started again between two cycles
Restart ==
  /\ \E d \in Devices : heap[d].exists
  /\ heap' = [d \in Devices |-> NoDoc]
  /\ UNCHANGED <<now, deviceStates, events, last, okAct, dbFault, committedOnAt,
                 committedOffAt, cycles, DEBUG_ALLOW_REON, restartVars, asyncVars, thrVars, clockVars, msgVars, unitVars>>

NextRestart == TelemetryBoth \/ Restart

SpecRestart == Init /\ [][NextRestart]_vars

-----------------------------------------------------------------------------
\* handleTelemetryMessage await by await. The listener registered by
\* mqttClient.subscribe calls the async handler and does not wait for the
\* promise it returns, so an invocation runs up to its first await and the
\* next message is handed to a new invocation.

\* time taken up to the Date.now() of an invocation
AsyncDeltas == {1000, 60000}
\* payload.soilPct of the messages: below threshold_on, above threshold_off
AsyncSoil == {Num(28), Num(36)}
\* forecast.daily[0].rain (mm) when the forecast service answers
ForecastRains == {2}

\* state.save(): the paths assigned a value other than the loaded one are
\* written, the others keep what the collection holds
SaveModified(stored, loaded, mem) ==
  [exists |-> TRUE,
   relayState |-> IF mem.relayState # loaded.relayState THEN mem.relayState
                  ELSE stored.relayState,
   lastActionTs |-> IF mem.lastActionTs # loaded.lastActionTs
                    THEN PersistedTs("lastActionTs", mem.lastActionTs) ELSE stored.lastActionTs,
   lastOnTs |-> IF mem.lastOnTs # loaded.lastOnTs
                THEN PersistedTs("lastOnTs", mem.lastOnTs) ELSE stored.lastOnTs,
   lastOffTs |-> IF mem.lastOffTs # loaded.lastOffTs
                 THEN PersistedTs("lastOffTs", mem.lastOffTs) ELSE stored.lastOffTs]

SetHandler(h, rec) ==
  inflight' = [inflight EXCEPT ![h] = rec]

\* client.on('message', ...) calls handler(t, msg): the invocation parses the
\* payload and stops at its first await
Deliver(h, d, rawSoil) ==
  /\ inflight[h].pc = "idle"
  /\ SetHandler(h, [IdleHandler EXCEPT !.pc = "find", !.deviceId = d,
                                       !.soilPct = normalizeSoil(rawSoil)])
  /\ UNCHANGED <<ctrlVars, restartVars, thrVars, clockVars, msgVars, unitVars>>

\* state = await DeviceState.findOne({ deviceId }).exec()
FindOneStep(h) ==
  LET r  == inflight[h]
      st == findOne(deviceStates[r.deviceId], heap[r.deviceId])
  IN  /\ r.pc = "find"
      /\ SetHandler(h, [r EXCEPT !.pc = IF st.exists THEN "forecast" ELSE "create",
                                 !.state = st])
      /\ UNCHANGED <<ctrlVars, restartVars, thrVars, clockVars, msgVars, unitVars>>

\* state = await DeviceState.create({...}): deviceId is unique, so creating a
\* record that exists by now throws and state stays undefined
CreateStep(h) ==
  LET r == inflight[h]
      free == ~deviceStates[r.deviceId].exists
  IN  /\ r.pc = "create"
      /\ SetHandler(h, [r EXCEPT !.pc = "forecast",
                                 !.state = IF free THEN NewDeviceState ELSE NoDoc,
                                 !.created = free])
      /\ deviceStates' = IF free THEN [deviceStates EXCEPT ![r.deviceId] = NewDeviceState]
                         ELSE deviceStates
      /\ UNCHANGED <<now, events, last, okAct, dbFault, committedOnAt, committedOffAt,
                     cycles, DEBUG_ALLOW_REON, heap, restartVars, thrVars, clockVars, msgVars, unitVars>>

\* forecast = await fetchForecast(lat, lon): the service answers
ForecastAnswer(h) ==
  /\ inflight[h].pc = "forecast"
  /\ \E rain \in ForecastRains :
       SetHandler(h, [inflight[h] EXCEPT !.pc = "decide", !.rain24 = rain])
  /\ UNCHANGED <<ctrlVars, restartVars, thrVars, clockVars, msgVars, unitVars>>

\* axios.get(url, { timeout: 7000 }) gives up; fetchForecast returns null
ForecastTimeout(h) ==
  /\ inflight[h].pc = "forecast"
  /\ SetHandler(h, [inflight[h] EXCEPT !.pc = "decide", !.rain24 = 0])
  /\ UNCHANGED <<ctrlVars, restartVars, thrVars, clockVars, msgVars, unitVars>>

\* the decision of the invocation h once its publish results are pubRes
HandlerDecision(r, t, pubRes) ==
  Decide(RelayIsOn(r.state), ReadLastOnTs(r.state), ReadLastOffTs(r.state), r.soilPct,
         computeThreshold(DefaultProfile, Temperature, JsNull, r.rain24), t, pubRes,
         DEBUG_ALLOW_REON)

\* computeThreshold, now = Date.now(), and the branch taken: either
\* persistEvent is called at once or publishManyFormats is awaited first
DecideStep(h) ==
  /\ inflight[h].pc = "decide"
  /\ \E dt \in AsyncDeltas :
       LET r   == inflight[h]
           out == HandlerDecision(r, now + dt, publishManyFormats(NoneAcked))
       IN  /\ now' = now + dt
           /\ SetHandler(h, IF out.cmd = "NONE"
                            THEN [r EXCEPT !.pc = "persist", !.t = now + dt,
                                           !.action = out.action, !.reason = out.reason]
                            ELSE [r EXCEPT !.pc = "publish", !.t = now + dt, !.cmd = out.cmd])
  /\ UNCHANGED <<deviceStates, events, last, okAct, dbFault, committedOnAt, committedOffAt,
                 cycles, DEBUG_ALLOW_REON, heap, restartVars, thrVars, clockVars, msgVars, unitVars>>

\* the callbacks of client.publish settle every attempt of publishManyFormats
PublishSettle(h) ==
  /\ inflight[h].pc = "publish"
  /\ \E att \in PubScenarios :
       LET r   == inflight[h]
           out == HandlerDecision(r, r.t, publishManyFormats(att))
       IN  SetHandler(h, [r EXCEPT !.pc = "persist", !.successes = out.successes,
                                   !.action = out.action, !.reason = out.reason])
  /\ UNCHANGED <<ctrlVars, restartVars, thrVars, clockVars, msgVars, unitVars>>

\* persistEvent: assignments, state.save(), logIrrigationEvent
PersistStep(h) ==
  LET r   == inflight[h]
      d   == r.deviceId
      mem == persistEventDoc(r.state, r.action, r.t)
  IN  /\ r.pc = "persist"
      /\ SetHandler(h, [r EXCEPT !.pc = "done"])
      /\ deviceStates' = IF r.state.exists
                         THEN [deviceStates EXCEPT ![d] = SaveModified(@, r.state, mem)]
                         ELSE deviceStates
      /\ events' = logIrrigationEvent(events,
                     [deviceId |-> d, action |-> r.action, reason |-> r.reason,
                      timestamp |-> r.t])
      /\ UNCHANGED <<now, last, okAct, dbFault, committedOnAt, committedOffAt,
                     cycles, DEBUG_ALLOW_REON, heap, restartVars, thrVars, clockVars, msgVars, unitVars>>

\* two messages for one device handed to the listener back to back
Arrive == \E h \in Handlers, rawSoil \in AsyncSoil : Deliver(h, "A", rawSoil)
\* what an invocation does once the database answers or the axios timer fires
HandlerStep(h) ==
  FindOneStep(h) \/ CreateStep(h) \/ ForecastTimeout(h) \/ DecideStep(h) \/ PersistStep(h)
Resume == \E h \in Handlers : HandlerStep(h)
ForecastReply == \E h \in Handlers : ForecastAnswer(h)
BrokerCallback == \E h \in Handlers : PublishSettle(h)

NextAsync == Arrive \/ Resume \/ ForecastReply \/ BrokerCallback

SpecAsync == Init /\ [][NextAsync]_vars

\* The database answers every query and timers fire, so an invocation that can
\* go on does; nothing makes the broker or the forecast service answer.
SpecAsyncFair == SpecAsync /\ \A h \in Handlers : WF_vars(HandlerStep(h))

-----------------------------------------------------------------------------
\* computeThreshold on its own: GET /api/irrigation/threshold and the
\* controller call the server's, the dashboard the client's.

\* cropProfile arguments: every field given, none given, a name alone
ProfileBands == {<<40, 10>>, <<14, 10>>, <<100, 98>>, <<100, 0>>, <<30, 20>>}
FullProfiles ==
  {CropProfile("tomato", Kc100, tf100, rootDepth_cm, band[1], band[2], hysteresisPct) :
     Kc100 \in {50, 90, 120}, tf100 \in {0, 75, 100}, rootDepth_cm \in {3, 30, 100},
     band \in ProfileBands, hysteresisPct \in {0, 5}}
NameOnlyProfiles ==
  {CropProfile(n, Absent, Absent, Absent, Absent, Absent, Absent) : n \in {"tomato", "Tomato"}}
CropProfileArgs == FullProfiles \cup NameOnlyProfiles \cup {EmptyProfile}

\* crop-profile stores: empty, and holding a tomato document
TomatoDoc == CropProfile("tomato", 120, 60, 30, 40, 10, Absent)
CropStores == {<< >>, [n \in {"tomato"} |-> TomatoDoc]}

\* telemetry.temperature, forecast.current.temp, forecast.daily[0].rain || 0
CallTemperatures == {JsNull, Num(5), Num(25), Num(40)}
CallForecastTemps == {JsNull, Num(30)}
CallRains == {0, 1, 2, 5}

InitThreshold ==
  /\ InitController
  /\ ref = NoRef
  /\ coldStart = FALSE
  /\ inflight = [h \in Handlers |-> IdleHandler]
  /\ call \in {[NoCall EXCEPT !.cropProfile = cp, !.store = st, !.temperature = te,
                              !.forecastTemp = ft, !.rain24 = r] :
                 cp \in CropProfileArgs, st \in CropStores, te \in CallTemperatures,
                 ft \in CallForecastTemps, r \in CallRains}
  /\ tock = FALSE
  /\ lastMsg = NotJsonText
  /\ pub = PubStart
  /\ alone = [d \in Devices |-> NoAlone]
  /\ hnd = NoInvocation
  /\ ui = InitUi
  /\ ctl = InitCtl

\* the call is made, on the server and in the client
ComputeThresholdCall ==
  /\ ~call.done
  /\ call' = [call EXCEPT
       !.done = TRUE,
       !.server = serverComputeThreshold(call.cropProfile, call.store, call.temperature,
                                         call.forecastTemp, call.rain24),
       !.client = clientComputeThreshold(call.cropProfile, call.temperature,
                                         call.forecastTemp, call.rain24)]
  /\ UNCHANGED <<ctrlVars, restartVars, asyncVars, clockVars, msgVars, unitVars>>

NextThreshold == ComputeThresholdCall

SpecThreshold == InitThreshold /\ [][NextThreshold]_vars

-----------------------------------------------------------------------------
\* One reading for one crop, handled by the controller and by the dashboard.

\* zone.crop / payload.crop: the eight known crops, a capitalised one, none,
\* and a crop that no table holds
CropNames == DOMAIN cropDefaultsTable \cup {"Tomato", "", "rice"}

\* the crop-profile collection: empty, or holding the dashboard's table
SeededStore == [n \in DOMAIN cropDefaultsTable |-> [cropDefaultsTable[n] EXCEPT !.name = n]]
BandStores == {<< >>, SeededStore}

InitBand ==
  /\ InitController
  /\ ref = NoRef
  /\ coldStart = FALSE
  /\ inflight = [h \in Handlers |-> IdleHandler]
  /\ call \in {[NoCall EXCEPT !.crop = c, !.store = st, !.temperature = te] :
                 c \in CropNames, st \in BandStores, te \in CallTemperatures}
  /\ tock = FALSE
  /\ lastMsg = NotJsonText
  /\ pub = PubStart
  /\ alone = [d \in Devices |-> NoAlone]
  /\ hnd = NoInvocation
  /\ ui = InitUi
  /\ ctl = InitCtl

\* both sides resolve the crop and compute the band
BandCall ==
  /\ ~call.done
  /\ call' = [call EXCEPT
       !.done = TRUE,
       !.cropProfile = profileForCompute(call.store, call.crop),
       !.server = serverBand(call.store, call.crop, call.temperature),
       !.client = clientBand(call.crop, call.temperature)]
  /\ UNCHANGED <<ctrlVars, restartVars, asyncVars, clockVars, msgVars, unitVars>>

NextBand == BandCall

SpecBand == InitBand /\ [][NextBand]_vars

-----------------------------------------------------------------------------
\* The relay topics of two devices, as the controller and the dashboard
\* derive them.

\* payload.deviceId || payload.zoneId || payload.id || 'unknown': the two
\* well-known ids, ids close to them and to the fixed topics' endings, the
\* id of a message that names none, and names every object inherits
TopicIds ==
  {"A", "B", "a", "C", "1", "2", "relay1", "/A", "A/", "unknown", "zone-7",
   "constructor", "toString"}

InitTopics ==
  /\ InitController
  /\ ref = NoRef
  /\ coldStart = FALSE
  /\ inflight = [h \in Handlers |-> IdleHandler]
  /\ call \in {[NoCall EXCEPT !.ids = <<a, b>>] : a \in TopicIds, b \in TopicIds}
  /\ tock = FALSE
  /\ lastMsg = NotJsonText
  /\ pub = PubStart
  /\ alone = [d \in Devices |-> NoAlone]
  /\ hnd = NoInvocation
  /\ ui = InitUi
  /\ ctl = InitCtl

\* a command is addressed to each of the two devices
TopicCall ==
  /\ ~call.done
  /\ call' = [call EXCEPT
       !.done = TRUE,
       !.serverTopics = <<zoneToRelayTopic(call.ids[1]), zoneToRelayTopic(call.ids[2])>>,
       !.clientTopics = <<zoneToTopic(call.ids[1]), zoneToTopic(call.ids[2])>>]
  /\ UNCHANGED <<ctrlVars, restartVars, asyncVars, clockVars, msgVars, unitVars>>

NextTopics == TopicCall

SpecTopics == InitTopics /\ [][NextTopics]_vars

-----------------------------------------------------------------------------
\* The controller over wall-clock time. startController subscribes the
\* handler and sets no timer: between telemetry messages only time passes.

MaxTicks == 2
\* time that passes in one step of the clock
TickMs == MAX_ON_MS + 1
\* up to ClockHorizon the clock value is kept; past it, time passing is still
\* seen (tock) but no further telemetry is explored
ClockHorizon == T0 + MaxTicks * TickMs
ClockRuns == now < ClockHorizon

Tick ==
  /\ now' = IF ClockRuns THEN now + TickMs ELSE now
  /\ tock' = ~tock
  /\ UNCHANGED <<deviceStates, events, last, okAct, dbFault, committedOnAt, committedOffAt,
                 cycles, DEBUG_ALLOW_REON, heap, restartVars, asyncVars, thrVars, msgVars, unitVars>>

\* readings below threshold_on and above threshold_off, 1 s or 60 s after the
\* previous operation
ClockSoil == {Num(28), Num(36)}
ClockDeltas == {1000, 60000}
TelemetryClock ==
  /\ cycles < MaxCycles
  /\ ClockRuns
  /\ \E d \in TelemetryDevices, rawSoil \in ClockSoil, dt \in ClockDeltas, att \in PubScenarios :
       HandleTelemetry(d, rawSoil, dt, TRUE, TRUE, att)
  /\ UNCHANGED auxVars

NextWatchdog == TelemetryClock \/ Tick

\* Wall-clock time advances; whether telemetry arrives is up to the devices.
SpecWatchdog == Init /\ [][NextWatchdog]_vars /\ WF_vars(Tick)

-----------------------------------------------------------------------------
\* handleTelemetryMessage on the messages of the telemetry topic, from the
\* text received to the event append.

MaxMessages == 2

\* payload.soilPct: missing, a number, numeric strings (plain, and padded
\* with a percent sign), the empty string, white space, a bare '%', a word
MsgSoil ==
  {JsNull, Num(28), Str(<<"2", "8">>), Str(<<" ", "3", "6", "%", " ">>),
   Str(<< >>), Str(<<" ">>), Str(<<"%">>), Str(<<"x">>)}

\* messages: text that is not JSON; JSON null, numbers, a string, a boolean;
\* telemetry objects for device A; an object without a device id
Messages ==
  {NotJsonText, JsonText(JsNull), JsonText(Num(0)), JsonText(Num(123)),
   JsonText(Str(<<"x">>)), JsonText(Bool(TRUE)), JsonText(Obj([soil |-> Num(36)]))}
    \cup {JsonText(Obj([deviceId |-> Str(<<"A">>), soilPct |-> v])) : v \in MsgSoil}

MsgDeltas == {1000, MAX_ON_MS + 1}

\* if (!payload) { console.warn('invalid telemetry'); return; }
DropMessage(dt) ==
  /\ cycles' = cycles + 1
  /\ now' = now + dt
  /\ last' = [NoCycle EXCEPT !.kind = "dropped", !.now = now + dt]
  /\ UNCHANGED <<deviceStates, events, okAct, dbFault, committedOnAt, committedOffAt,
                 DEBUG_ALLOW_REON, heap>>

HandleMessage(msg, dt, att) ==
  LET payload == safeParseJSON(msg)
  IN  /\ lastMsg' = msg
      /\ IF ~Truthy(payload)
         THEN DropMessage(dt)
         ELSE HandleTelemetry(PayloadDeviceId(payload), PayloadSoil(payload), dt,
                              TRUE, TRUE, att)

Message ==
  /\ cycles < MaxMessages
  /\ \E msg \in Messages, dt \in MsgDeltas, att \in PubScenarios : HandleMessage(msg, dt, att)
  /\ UNCHANGED <<restartVars, asyncVars, thrVars, clockVars, unitVars>>

NextMessages == Message

SpecMessages == Init /\ [][NextMessages]_vars


-----------------------------------------------------------------------------
\* publishManyFormats on its own, attempt by attempt

\* the loop hands the next attempt to the MQTT client
PublishIssue ==
  /\ ~pub.done /\ ~pub.waiting
  /\ pub' = publishIssue(pub)
  /\ UNCHANGED <<ctrlVars, restartVars, asyncVars, thrVars, clockVars, msgVars, devVars, handlerVars, uiVars, lifeVars>>

\* the callback of client.publish settles the attempt
PublishCallback ==
  /\ pub.waiting
  /\ \E o \in AttemptOutcomes : pub' = publishSettle(pub, o)
  /\ UNCHANGED <<ctrlVars, restartVars, asyncVars, thrVars, clockVars, msgVars, devVars, handlerVars, uiVars, lifeVars>>

NextPublish == PublishIssue \/ PublishCallback

SpecPublish == Init /\ [][NextPublish]_vars

\* The loop goes on whenever it can; nothing makes the MQTT library call back.
SpecPublishFair == SpecPublish /\ WF_vars(PublishIssue)

-----------------------------------------------------------------------------
\* Telemetry of several devices, next to one controller per device that is
\* sent that device's messages only, at the same times and with the same
\* database and broker behaviour.

DeviceSet == {"A", "B"}
DeviceSoil == {Num(28), Num(36)}
DeviceDeltas == {1000, 60000}

AloneCycle(d, rawSoil, dt, e) ==
  LET a == alone[d]
      c == Cycle(findOne(byDeviceId(a.deviceStates, d), NoDoc), normalizeSoil(rawSoil), now + dt,
                 e.loadOk, e.saveOk, publishManyFormats(e.att), DEBUG_ALLOW_REON)
  IN  [deviceStates |-> [a.deviceStates EXCEPT ![d] = c.stored],
       events |-> logIrrigationEvent(a.events,
                    [deviceId |-> d, action |-> c.action, reason |-> c.reason,
                     timestamp |-> now + dt]),
       cmd |-> c.cmd, topic |-> IF c.cmd = "NONE" THEN "" ELSE zoneToRelayTopic(d),
       successes |-> c.successes, action |-> c.action, reason |-> c.reason]

TelemetryDevicesBoth ==
  /\ cycles < MaxCycles
  /\ \E d \in DeviceSet, rawSoil \in DeviceSoil, dt \in DeviceDeltas, e \in Envs :
       /\ HandleTelemetry(d, rawSoil, dt, e.loadOk, e.saveOk, e.att)
       /\ alone' = [alone EXCEPT ![d] = AloneCycle(d, rawSoil, dt, e)]
  /\ UNCHANGED <<restartVars, asyncVars, thrVars, clockVars, msgVars, pubVars, handlerVars, uiVars, lifeVars>>

NextDevices == TelemetryDevicesBoth

SpecDevices == Init /\ [][NextDevices]_vars

-----------------------------------------------------------------------------
\* The subscribed handler: internalHandler around handleTelemetryMessage, with
\* the forecast the weather service returned.

\* variant: the handler awaits handleTelemetryMessage without a try/catch
internalHandler_NoCatch(outcome) == IF outcome = "threw" THEN "rejected" ELSE "resolved"

\* async (topic, message) => { try { await handleTelemetryMessage(topic, message); }
\*                             catch (err) { console.error(...) } }
internalHandler(outcome) == "resolved"

\* res.data of the forecast request: none, an object without daily, an empty
\* daily, a null first entry, a first entry without rain, a dry day
ForecastShapes ==
  {JsNull, Obj([timezone |-> Str(<<"Z">>)]), Obj([daily |-> Arr(<< >>)]),
   Obj([daily |-> Arr(<<JsNull>>)]), Obj([daily |-> Arr(<<Obj([temp |-> Num(25)])>>)]),
   Obj([daily |-> Arr(<<Obj([rain |-> Num(0)])>>)])}

\* if (lat && lon) forecast = await fetchForecast(lat, lon); else it stays null
ForecastsFor(payload) ==
  IF Truthy(FirstTruthy(Prop(payload, "lat"), Prop(payload, "latitude")))
       /\ Truthy(FirstTruthy(Prop(payload, "lon"), Prop(payload, "longitude")))
  THEN ForecastShapes ELSE {JsNull}

\* text that is not JSON, a reading with a position, a reading without
HandlerMessages ==
  {NotJsonText,
   JsonText(Obj([deviceId |-> Str(<<"A">>), soilPct |-> Num(28), lat |-> Num(12), lon |-> Num(77)])),
   JsonText(Obj([deviceId |-> Str(<<"A">>), soilPct |-> Num(36)]))}
HandlerDeltas == {1000, 60000}
HandlerEnvs == {Env(TRUE, TRUE, JsonOnRetry), Env(TRUE, TRUE, NoneAcked), Env(FALSE, TRUE, JsonOnRetry)}

\* computeThreshold throws: the state was loaded (and created if missing);
\* nothing is published, persistEvent is not reached
AbortedCycle(d, dt, loadOk) ==
  LET created == loadOk /\ ~deviceStates[d].exists
  IN  /\ cycles' = cycles + 1
      /\ now' = now + dt
      /\ deviceStates' = IF created THEN [deviceStates EXCEPT ![d] = NewDeviceState]
                         ELSE deviceStates
      /\ heap' = [heap EXCEPT ![d] = IF loadOk THEN deviceStates'[d] ELSE NoDoc]
      /\ dbFault' = [dbFault EXCEPT ![d] = dbFault[d] \/ ~loadOk]
      /\ last' = [NoCycle EXCEPT !.kind = "threw", !.deviceId = d, !.now = now + dt,
                                 !.pre = deviceStates[d], !.loaded = loadOk,
                                 !.created = created]
      /\ UNCHANGED <<events, okAct, committedOnAt, committedOffAt, DEBUG_ALLOW_REON>>

\* one message handed to the subscribed handler
HandlerInvocation(msg, dt, e, forecast) ==
  LET payload == safeParseJSON(msg)
      rain    == serverRain24(forecast)
      outcome == IF Truthy(payload) /\ rain.threw THEN "threw" ELSE "returned"
  IN  /\ lastMsg' = msg
      /\ IF ~Truthy(payload) THEN DropMessage(dt)
         ELSE IF rain.threw THEN AbortedCycle(PayloadDeviceId(payload), dt, e.loadOk)
         ELSE HandleTelemetry(PayloadDeviceId(payload), PayloadSoil(payload), dt,
                              e.loadOk, e.saveOk, e.att)
      /\ hnd' = [subscribed |-> hnd.subscribed,
                 settled |-> internalHandler(outcome),
                 threw |-> outcome = "threw",
                 failedBefore |-> hnd.failedBefore \/ hnd.threw,
                 forecast |-> forecast,
                 serverRain |-> rain, clientRain |-> clientRain24(forecast)]

HandlerMessage ==
  /\ cycles < MaxMessages
  /\ \E msg \in HandlerMessages, dt \in HandlerDeltas :
       IF ~Truthy(safeParseJSON(msg))
       THEN HandlerInvocation(msg, dt, Env(TRUE, TRUE, JsonOnRetry), JsNull)
       ELSE \E e \in HandlerEnvs, forecast \in ForecastsFor(safeParseJSON(msg)) :
              HandlerInvocation(msg, dt, e, forecast)
  /\ UNCHANGED <<restartVars, asyncVars, thrVars, clockVars, pubVars, devVars, uiVars, lifeVars>>

NextHandler == HandlerMessage

SpecHandler == Init /\ [][NextHandler]_vars

-----------------------------------------------------------------------------
\* The dashboard with the auto tab open: polls and telemetry run runAutoCheck,
\* the operator toggles manual locks and forces relays, the MQTT client of
\* useMqttPublish connects and disconnects.

MaxUiOps == 3
\* the reading shown for both zones: none, dry, wet
UiSoil == {JsNull, Num(20), Num(50)}
\* time since the previous operation: 1 s, MIN_ON_MS, just past MIN_INTERVAL_MS
UiDeltas == {1000, UI_MIN_ON_MS, MIN_INTERVAL_MS + 1}

\* what the page held before the operation
Snapshot(u) ==
  [stateRef |-> u.stateRef, zoneStatus |-> u.zoneStatus, zones |-> u.zones,
   sent |-> u.sent, connected |-> u.connected]
UiStep(u, op, dt) ==
  [u EXCEPT !.ops = ui.ops + 1, !.now = ui.now + dt, !.op = op, !.before = Snapshot(ui)]
UiFrame ==
  UNCHANGED <<ctrlVars, restartVars, asyncVars, thrVars, clockVars, msgVars, pubVars,
              devVars, handlerVars, lifeVars>>

RunAutoCheck ==
  /\ ui.ops < MaxUiOps
  /\ \E soilRaw \in UiSoil, dt \in UiDeltas :
       ui' = UiStep(runAutoCheck(ui, 1, soilRaw, ui.now + dt),
                    [NoOp EXCEPT !.kind = "auto", !.soilRaw = soilRaw], dt)
  /\ UiFrame

ForceAction ==
  /\ ui.ops < MaxUiOps
  /\ \E zoneId \in ZoneIds, action \in {"ON", "OFF"}, dt \in UiDeltas :
       ui' = UiStep(forceAction(ui, zoneId, action, ui.now + dt),
                    [NoOp EXCEPT !.kind = "force", !.zoneId = zoneId, !.action = action], dt)
  /\ UiFrame

\* manualOverrideToggle(zoneId)
ManualOverrideToggle ==
  /\ ui.ops < MaxUiOps
  /\ \E zoneId \in ZoneIds :
       ui' = UiStep([ui EXCEPT !.zones[zoneId].manualOn = ~@],
                    [NoOp EXCEPT !.kind = "toggle", !.zoneId = zoneId], 0)
  /\ UiFrame

\* the 'connect' and 'close' events of the dashboard's MQTT client
ConnectionChange ==
  /\ ui.ops < MaxUiOps
  /\ ui' = UiStep([ui EXCEPT !.connected = ~@], [NoOp EXCEPT !.kind = "connection"], 0)
  /\ UiFrame

NextUi == RunAutoCheck \/ ForceAction \/ ManualOverrideToggle \/ ConnectionChange

SpecUi == Init /\ [][NextUi]_vars

-----------------------------------------------------------------------------
\* The controller's life cycle: calls of startController and stopController,
\* each running up to its next await, and the MQTT library's events.

MaxStartStop == 4

LifeFrame ==
  UNCHANGED <<ctrlVars, restartVars, asyncVars, thrVars, clockVars, msgVars, pubVars,
              devVars, handlerVars, uiVars>>

\* startController is called: if (subscribed) return; else await connect()
StartController(p) ==
  /\ ctl.pc[p] = "idle"
  /\ ctl.calls < MaxStartStop
  /\ LET r == connect(ctl)
         overlap == \E q \in Starters \ {p} : ctl.pc[q] # "idle"
     IN  ctl' = IF ctl.subscribed THEN [ctl EXCEPT !.calls = @ + 1]
                ELSE [r.ctl EXCEPT !.calls = @ + 1, !.pc[p] = "connect",
                                   !.awaits[p] = r.promise,
                                   !.overlapped = @ \/ overlap]
  /\ LifeFrame

\* the 'connect' event of a client
BrokerConnack ==
  /\ \E k \in 1 .. ctl.made :
       /\ k \notin ctl.resolved /\ k \notin ctl.ended
       /\ ctl' = [ctl EXCEPT !.resolved = @ \cup {k}]
  /\ LifeFrame

\* the awaited connect() has resolved: mqttClient.subscribe(TELEMETRY_TOPIC, {},
\* internalHandler) either hands the subscription to the client or, with no
\* client, calls connect() and comes back here
CallSubscribe(p) ==
  /\ ctl.pc[p] = "connect"
  /\ ctl.awaits[p] \in ctl.resolved
  /\ ctl' = IF ctl.client = 0
            THEN LET r == connect(ctl) IN [r.ctl EXCEPT !.awaits[p] = r.promise]
            ELSE [ctl EXCEPT !.pc[p] = "subscribe", !.subOn[p] = ctl.client]
  /\ LifeFrame

\* the callback of client.subscribe without error: the message listener is
\* attached, the promise resolves and startController sets subscribed = true
SubscribeCallback(p) ==
  /\ ctl.pc[p] = "subscribe"
  /\ Connected(ctl, ctl.subOn[p])
  /\ ctl' = [attachHandler(ctl, ctl.subOn[p]) EXCEPT
               !.pc[p] = "idle", !.subscribed = TRUE]
  /\ LifeFrame

\* the client was ended before it granted the subscription: the callback
\* reports an error and startController rethrows it
SubscribeFails(p) ==
  /\ ctl.pc[p] = "subscribe"
  /\ ctl.subOn[p] \in ctl.ended
  /\ ctl' = [ctl EXCEPT !.pc[p] = "idle"]
  /\ LifeFrame

\* stopController is called: await mqttClient.end(), which resolves at once
\* when there is no client
StopController ==
  /\ ctl.stopPc = "idle"
  /\ ctl.calls < MaxStartStop
  /\ ctl' = IF ctl.client = 0
            THEN [ctl EXCEPT !.calls = @ + 1, !.subscribed = FALSE]
            ELSE [ctl EXCEPT !.calls = @ + 1, !.stopPc = "ending", !.stopOn = ctl.client]
  /\ LifeFrame

\* the callback of client.end: client = null, readyPromise = null, then
\* stopController sets subscribed = false
EndCallback ==
  /\ ctl.stopPc = "ending"
  /\ ctl' = [ctl EXCEPT !.ended = @ \cup {ctl.stopOn}, !.client = 0, !.readyPromise = 0,
                        !.subscribed = FALSE, !.stopPc = "idle"]
  /\ LifeFrame

\* a telemetry message reaches the process
TelemetryArrives ==
  /\ ctl' = [ctl EXCEPT !.invoked = Invocations(ctl)]
  /\ LifeFrame

Start == \E p \in Starters : StartController(p)
Subscribe == \E p \in Starters : CallSubscribe(p)
Subscribed == \E p \in Starters : SubscribeCallback(p) \/ SubscribeFails(p)

NextLife ==
  Start \/ BrokerConnack \/ Subscribe \/ Subscribed \/ StopController \/ EndCallback
    \/ TelemetryArrives

SpecLife == Init /\ [][NextLife]_vars

-----------------------------------------------------------------------------
\* The dashboard left on the auto tab: every check is the one that the
\* arrival of telemetry triggers (lines 166-170), no button is pressed.

\* the reading: none, dry, inside both zones' bands, wet
AutoSoil == {JsNull, Num(20), Num(32), Num(50)}
\* time since the previous operation: MIN_ON_MS, just past MIN_INTERVAL_MS,
\* and past the controller's MAX_ON_MS
AutoDeltas == {UI_MIN_ON_MS, MIN_INTERVAL_MS + 1, MAX_ON_MS + 1}

TelemetryTrigger ==
  /\ ui.ops < MaxUiOps
  /\ \E soilRaw \in AutoSoil, dt \in AutoDeltas :
       ui' = UiStep(runAutoCheck(ui, 1, soilRaw, ui.now + dt),
                    [NoOp EXCEPT !.kind = "auto", !.soilRaw = soilRaw], dt)
  /\ UiFrame

NextUiAuto == TelemetryTrigger \/ ConnectionChange

SpecUiAuto == Init /\ [][NextUiAuto]_vars

-----------------------------------------------------------------------------
\* The dashboard with the manual tab's ON and OFF buttons as well.

\* ManualMode: onPublish(zone.id, action) calls the publishRelay prop, which
\* the page binds to publishRelay itself; nothing else is written
manualPublish(u, zoneId, action) ==
  [u EXCEPT !.sent = publishRelay(u.sent, u.connected, zoneId, action)]

ManualButton ==
  /\ ui.ops < MaxUiOps
  /\ \E zoneId \in ZoneIds, action \in {"ON", "OFF"} :
       ui' = UiStep(manualPublish(ui, zoneId, action),
                    [NoOp EXCEPT !.kind = "manual", !.zoneId = zoneId, !.action = action],
                    1000)
  /\ UiFrame

NextUiManual == RunAutoCheck \/ ForceAction \/ ManualButton \/ ConnectionChange

SpecUiManual == Init /\ [][NextUiManual]_vars

-----------------------------------------------------------------------------
\* Properties

\* the stored document of the device of the last cycle
Stored == deviceStates[last.deviceId]
\* timestamps the last cycle found stored, a missing one counted as 0
PreLastOnTs == IF last.pre.lastOnTs = NullTs THEN 0 ELSE last.pre.lastOnTs
PreLastOffTs == IF last.pre.lastOffTs = NullTs THEN 0 ELSE last.pre.lastOffTs
\* the last operation was a telemetry cycle that loaded the device's state
LoadedCycle == last.kind = "cycle" /\ last.loaded
SoilAtMost(x) == IsNum(last.soilPct) /\ last.soilPct.v <= x
SoilAtLeast(x) == IsNum(last.soilPct) /\ last.soilPct.v >= x

WatchdogCase ==
  LoadedCycle /\ last.pre.relayState /\ last.now - PreLastOnTs > MAX_ON_MS

\* C1 - Watchdog precedence: a cycle for a device whose stored relayState is
\* true and whose lastOnTs is more than MAX_ON_MS old publishes OFF to the
\* device's relay topic (never ON) whatever the soil value, hands persistEvent
\* the action OFF with reason watchdog_forced_off, which is logged, sets
\* relayState to false (stored so when the save succeeds), and takes no other
\* branch.
C1_WatchdogPrecedence ==
  WatchdogCase =>
    /\ last.cmd = "OFF"
    /\ last.topic = zoneToRelayTopic(last.deviceId)
    /\ last.action = "OFF"
    /\ last.reason = "watchdog_forced_off"
    /\ last.logged
    /\ events[Len(events)] = [deviceId |-> last.deviceId, action |-> "OFF",
                              reason |-> "watchdog_forced_off", timestamp |-> last.now]
    /\ last.mem.relayState = FALSE
    /\ (last.saved => Stored.relayState = FALSE)

\* the watchdog fires on a reading below threshold_on, which would otherwise ask for ON
C1_Witness ==
  WatchdogCase /\ SoilAtMost(last.threshold_on) /\ last.cmd = "OFF" /\ last.saved

\* C2 - Min-on enforcement: once an ON has been committed for a device at t0,
\* no cycle with now < t0 + MIN_ON_MS publishes OFF or commits OFF for it.
C2_MinOnEnforcement ==
  (last.kind = "cycle" /\ (last.cmd = "OFF" \/ last.action = "OFF")
     /\ committedOnAt[last.deviceId] # NullTs)
  => last.now >= committedOnAt[last.deviceId] + MIN_ON_MS

\* one second after the ON the soil is above threshold_off and the OFF is held back
C2_Witness ==
  /\ LoadedCycle
  /\ committedOnAt[last.deviceId] # NullTs
  /\ last.now = committedOnAt[last.deviceId] + 1000
  /\ SoilAtLeast(last.threshold_off)
  /\ last.reason = "min_on_not_elapsed"
  /\ last.cmd = "NONE"

\* C3 - No double actuation: while no DeviceState load or save has failed for a
\* device, a cycle delivers ON only if the stored relayState is false and OFF
\* only if it is true, and never delivers the kind of command that was
\* delivered last unless a transition of the other kind was committed since.
C3_NoDoubleActuation ==
  [][\A d \in Devices :
       (/\ last'.kind = "cycle" /\ cycles' = cycles + 1 /\ last'.deviceId = d
        /\ ~dbFault[d] /\ last'.loaded
        /\ last'.cmd # "NONE" /\ last'.successes # {})
       => /\ okAct[d] # last'.cmd
          /\ (last'.cmd = "ON" => ~(deviceStates[d].exists /\ deviceStates[d].relayState))
          /\ (last'.cmd = "OFF" => (deviceStates[d].exists /\ deviceStates[d].relayState))]_vars

\* a second ON is delivered after an ON and a committed OFF, with no database fault
C3_Witness ==
  /\ LoadedCycle /\ ~dbFault[last.deviceId]
  /\ last.cmd = "ON" /\ last.successes # {}
  /\ committedOffAt[last.deviceId] # NullTs
  /\ Len(events) = 3

\* a device with relay off and no prior ON gets soilPct = 28 under thresholds 30/35
FirstReading(l) ==
  /\ l.kind = "cycle" /\ l.loaded
  /\ ~l.pre.relayState /\ l.pre.lastOnTs = NullTs
  /\ l.soilPct = Num(28)
  /\ l.threshold_on = 30 /\ l.threshold_off = 35
\* ... and the same message is processed again 10 s after the ON was committed
Redelivery ==
  /\ FirstReading(last) /\ last.action = "ON" /\ last.saved
  /\ last'.kind = "cycle" /\ cycles' = cycles + 1 /\ last'.loaded
  /\ last'.deviceId = last.deviceId
  /\ last'.now = last.now + 10000
  /\ last'.soilPct = Num(28)
FirstReadingActuates ==
  FirstReading(last') =>
    /\ last'.cmd = "ON"
    /\ (last'.successes # {} =>
          /\ last'.action = "ON"
          /\ last'.mem.relayState
          /\ (last'.saved => deviceStates'[last'.deviceId].relayState))

\* C4 as stated - the second delivery is a RECOMMEND whose reason is the
\* between-ON gate block, with no publish.
C4_RedeliveryBlockedByGate ==
  [][FirstReadingActuates
     /\ (Redelivery => /\ last'.action = "RECOMMEND"
                       /\ last'.reason = "blocked_by_min_between_on"
                       /\ last'.cmd = "NONE")]_vars

\* C4 (amended) - Re-delivery: from relay off and no prior ON, soilPct = 28
\* under thresholds 30/35 asks for ON and, once delivered, commits it with
\* relayState = true; the identical message 10 s later finds the relay on, so
\* the ON evaluation is not entered: the outcome is RECOMMEND with reason
\* no_action, and nothing is published.
C4_RedeliveryNoAction ==
  [][FirstReadingActuates
     /\ (Redelivery => /\ last'.action = "RECOMMEND"
                       /\ last'.reason = "no_action"
                       /\ last'.cmd = "NONE")]_vars

\* the second delivery, 10 s after the committed ON
C4_Witness ==
  /\ LoadedCycle /\ last.soilPct = Num(28)
  /\ last.pre.relayState /\ last.now = PreLastOnTs + 10000
  /\ committedOnAt[last.deviceId] = PreLastOnTs
  /\ last.reason = "no_action"

\* C5 - Audit trail: every processed telemetry message appends exactly one
\* IrrigationEvent, whose action the event log accepts.
C5_AuditTrail ==
  last.kind = "cycle" =>
    /\ last.logged
    /\ last.action \in IrrigationEventActions

\* C6 - Commit requires confirmed delivery: a cycle changes the stored
\* relayState only if at least one encoding of its command was acknowledged.
C6_CommitRequiresDelivery ==
  (last.kind = "cycle" /\ Stored.relayState # last.pre.relayState)
  => last.successes # {}

\* C7 - Actuation failure leaves state alone: a gated ON or OFF attempt with no
\* acknowledged encoding ends as RECOMMEND with a publish-failure reason and
\* relayState, lastOnTs, lastOffTs and lastActionTs keep their pre-cycle values.
C7_FailureLeavesState ==
  (/\ last.kind = "cycle"
   /\ last.cmd # "NONE" /\ last.successes = {}
   /\ last.reason # "watchdog_forced_off")
  => /\ last.action = "RECOMMEND"
     /\ last.reason \in {"publish_failed_on", "publish_failed_off"}
     /\ Stored.relayState = last.pre.relayState
     /\ Stored.lastOnTs = last.pre.lastOnTs
     /\ Stored.lastOffTs = last.pre.lastOffTs
     /\ Stored.lastActionTs = last.pre.lastActionTs

\* the ON gate as stated, on the timestamps the cycle found stored
GateAllows ==
  IF PreLastOffTs > PreLastOnTs
  THEN last.now - PreLastOffTs >= MIN_INTERVAL_AFTER_OFF_MS
  ELSE last.now - PreLastOnTs >= MIN_INTERVAL_BETWEEN_ON_MS

\* C8 - ON gate: with DEBUG_ALLOW_REON unset, a cycle that loaded its state
\* publishes ON only if the stored relayState is false, soilPct <=
\* threshold_on and the gate passes; when the ON condition holds and the gate
\* blocks, the outcome is RECOMMEND with the block reason of the branch taken
\* and nothing is published.
C8_OnGate ==
  (LoadedCycle /\ ~DEBUG_ALLOW_REON) =>
    /\ (last.cmd = "ON" =>
          ~last.pre.relayState /\ SoilAtMost(last.threshold_on) /\ GateAllows)
    /\ (~last.pre.relayState /\ SoilAtMost(last.threshold_on) /\ ~GateAllows =>
          /\ last.action = "RECOMMEND"
          /\ last.reason = IF PreLastOffTs > PreLastOnTs
                           THEN "blocked_after_off_wait"
                           ELSE "blocked_by_min_between_on"
          /\ last.cmd = "NONE")

\* the ON condition holds and the between-ON gate blocks
C8_Witness ==
  /\ LoadedCycle /\ ~last.pre.relayState /\ SoilAtMost(last.threshold_on)
  /\ ~GateAllows
  /\ last.reason = "blocked_by_min_between_on"

\* C9 - After-OFF cool-down: a committed OFF at t leaves relayState = false and
\* lastOffTs = lastActionTs = t in the stored DeviceState, and no later cycle
\* with now < t + MIN_INTERVAL_AFTER_OFF_MS publishes ON for the device.
C9_StoredAfterOff ==
  (last.kind = "cycle" /\ last.action = "OFF" /\ last.saved) =>
    /\ Stored.relayState = FALSE
    /\ Stored.lastOffTs = last.now
    /\ Stored.lastActionTs = last.now
C9_NoOnDuringCoolDown ==
  (LoadedCycle /\ ~dbFault[last.deviceId] /\ last.cmd = "ON"
     /\ committedOffAt[last.deviceId] # NullTs)
  => last.now >= committedOffAt[last.deviceId] + MIN_INTERVAL_AFTER_OFF_MS
C9_AfterOffCoolDown == C9_StoredAfterOff /\ C9_NoOnDuringCoolDown

\* the OFF evaluation is entered: state loaded, relay on, watchdog silent,
\* soilPct >= threshold_off
OffEvaluation ==
  /\ LoadedCycle /\ last.pre.relayState
  /\ ~(last.now - PreLastOnTs > MAX_ON_MS)
  /\ SoilAtLeast(last.threshold_off)
OffGate1 == last.now - PreLastOnTs >= MIN_ON_MS
OffGate2 == last.now - PreLastOffTs >= MIN_INTERVAL_BETWEEN_OFF_MS

\* C10 as stated - OFF is published and committed if and only if both gates
\* hold; otherwise RECOMMEND with a gate reason, nothing published, relayState
\* stays true.
C10_OffIffGates ==
  OffEvaluation =>
    /\ ((last.cmd = "OFF" /\ last.action = "OFF") <=> (OffGate1 /\ OffGate2))
    /\ (~(OffGate1 /\ OffGate2) =>
          /\ last.action = "RECOMMEND"
          /\ last.reason \in {"min_on_not_elapsed", "min_interval_between_off_not_elapsed"}
          /\ last.cmd = "NONE"
          /\ Stored.relayState)

\* C10 (amended) - OFF evaluation: OFF is published if and only if both gates
\* hold, and it is committed if and only if, in addition, at least one encoding
\* is acknowledged; with both gates passed and no encoding acknowledged the
\* outcome is RECOMMEND publish_failed_off; with a gate failing it is RECOMMEND
\* (min_on_not_elapsed when Gate 1 fails, else
\* min_interval_between_off_not_elapsed) and nothing is published; in every
\* case without a committed OFF relayState stays true.
C10_OffEvaluation ==
  OffEvaluation =>
    /\ (last.cmd = "OFF" <=> (OffGate1 /\ OffGate2))
    /\ (last.action = "OFF" <=> (OffGate1 /\ OffGate2 /\ last.successes # {}))
    /\ (last.action = "OFF" =>
          last.reason = "soil_above_threshold_off" /\ (last.saved => ~Stored.relayState))
    /\ (OffGate1 /\ OffGate2 /\ last.successes = {} =>
          /\ last.action = "RECOMMEND"
          /\ last.reason = "publish_failed_off"
          /\ Stored.relayState)
    /\ (~(OffGate1 /\ OffGate2) =>
          /\ last.action = "RECOMMEND"
          /\ last.reason = IF ~OffGate1 THEN "min_on_not_elapsed"
                           ELSE "min_interval_between_off_not_elapsed"
          /\ last.cmd = "NONE"
          /\ Stored.relayState)

\* both gates pass and every encoding of the OFF fails
C10_Witness ==
  OffEvaluation /\ OffGate1 /\ OffGate2 /\ last.reason = "publish_failed_off"

\* C11 - Restart transparency: for any sequence of telemetry, a controller that
\* may be restarted between cycles makes in every cycle the decision (action,
\* reason, command published and encodings delivered) of a controller that is
\* never restarted, and leaves the same DeviceState records.
C11_RestartTransparency ==
  last.kind = "cycle" =>
    /\ last.action = ref.action
    /\ last.reason = ref.reason
    /\ last.cmd = ref.cmd
    /\ last.successes = ref.successes
    /\ deviceStates = ref.deviceStates

\* a cycle run right after a restart, within the cool-down of a committed OFF
\* whose lastOffTs the reference still holds in memory
C11_Witness ==
  /\ LoadedCycle /\ coldStart
  /\ committedOffAt[last.deviceId] # NullTs
  /\ last.now < committedOffAt[last.deviceId] + MIN_INTERVAL_AFTER_OFF_MS
  /\ ref.heap[last.deviceId].exists
  /\ SoilAtMost(last.threshold_on)

\* invocation h has read the DeviceState of its device and has not yet
\* completed its write and event append
ReadNotCompleted(h) == inflight[h].pc \in {"create", "forecast", "decide", "publish", "persist"}
\* invocation h found relayState = v and had the command cmd delivered
ReadAndDelivered(h, v, cmd) ==
  /\ inflight[h].pc \in {"persist", "done"}
  /\ RelayIsOn(inflight[h].state) = v
  /\ inflight[h].cmd = cmd /\ inflight[h].successes # {}

\* C12 - Per-device serialization: of two invocations for the same device, one
\* reads the DeviceState only after the other has completed its write and
\* event append; two invocations never both read relayState = false and both
\* publish ON, nor both read true and both publish OFF, nor both create the
\* record.
C12_PerDeviceSerialization ==
  \A h1, h2 \in Handlers :
    (h1 # h2 /\ inflight[h1].deviceId = inflight[h2].deviceId) =>
      /\ ~(ReadNotCompleted(h1) /\ ReadNotCompleted(h2))
      /\ ~(ReadAndDelivered(h1, FALSE, "ON") /\ ReadAndDelivered(h2, FALSE, "ON"))
      /\ ~(ReadAndDelivered(h1, TRUE, "OFF") /\ ReadAndDelivered(h2, TRUE, "OFF"))
      /\ ~(inflight[h1].created /\ inflight[h2].created)

\* C12, its consequence alone: two invocations never both read relayState =
\* false and both have ON delivered.
C12_NoDoubleOn ==
  \A h1, h2 \in Handlers :
    (h1 # h2 /\ inflight[h1].deviceId = inflight[h2].deviceId) =>
      ~(ReadAndDelivered(h1, FALSE, "ON") /\ ReadAndDelivered(h2, FALSE, "ON"))

\* C17 - No indefinite blocking: every invocation of handleTelemetryMessage
\* that has started reaches its event append, even if the broker never
\* answers a publish and the forecast service never answers.
C17_NoIndefiniteBlocking ==
  \A h \in Handlers : (inflight[h].pc # "idle") ~> (inflight[h].pc = "done")

\* C17, the forecast part: an invocation waiting for the forecast goes on.
C17_ForecastBounded ==
  \A h \in Handlers : (inflight[h].pc = "forecast") ~> (inflight[h].pc = "decide")

\* a valid crop profile: 0 <= wp < fc <= 100, hysteresis >= 0, root depth > 0,
\* Kc > 0, 0 <= targetFraction <= 1
ValidProfile(p) ==
  /\ 0 <= p.wiltingPointPct /\ p.wiltingPointPct < p.fieldCapacityPct
  /\ p.fieldCapacityPct <= 100
  /\ p.hysteresisPct >= 0 /\ p.rootDepth_cm > 0 /\ p.Kc100 > 0
  /\ 0 <= p.tf100 /\ p.tf100 <= 100
BandOrdered(res) ==
  LET p == res.details
  IN  /\ res.threshold_on <= res.threshold_off
      /\ p.wiltingPointPct + safetyMargin <= res.threshold_on /\ res.threshold_on <= 100
      /\ p.wiltingPointPct + safetyMargin <= res.threshold_off /\ res.threshold_off <= 100
      /\ res.threshold_on <= p.fieldCapacityPct - safetyMargin

\* C13 - Band ordering: for every valid crop profile and every temperature and
\* rain, computeThreshold (server and client) returns threshold_on <=
\* threshold_off, both within [wiltingPointPct + 3, 100], and threshold_on <=
\* fieldCapacityPct - 3.
C13_BandOrdering ==
  (call.done /\ ValidProfile(call.server.details)) =>
    BandOrdered(call.server) /\ BandOrdered(call.client)

\* C14 - Rain monotonicity: with the profile and the telemetry held fixed, a
\* larger rain24 never gives a larger threshold_on.
C14_RainMonotone ==
  call.done =>
    \A r2 \in CallRains :
      r2 >= call.rain24 =>
        serverComputeThreshold(call.cropProfile, call.store, call.temperature,
                               call.forecastTemp, r2).threshold_on
          <= call.server.threshold_on

\* more rain lowers the threshold
C14_Witness ==
  /\ call.done
  /\ \E r2 \in CallRains :
       /\ r2 > call.rain24
       /\ serverComputeThreshold(call.cropProfile, call.store, call.temperature,
                                 call.forecastTemp, r2).threshold_on
            < call.server.threshold_on

\* the reference call: tomato profile, temperature 25, no rain
ReferenceCall ==
  /\ call.done
  /\ call.cropProfile = CropProfile("tomato", 90, 75, 30, 40, 10, 5)
  /\ call.temperature = Num(25)
  /\ call.rain24 = 0

\* C15 - Reference scenario: for the tomato profile (Kc 0.9, targetFraction
\* 0.75, root depth 30, field capacity 40, wilting point 10, hysteresis 5),
\* temperature 25 and rain24 0, computeThreshold (server and client) returns
\* threshold_on = 30 and threshold_off = 35, the raw threshold lying strictly
\* inside the clamp.
C15_ReferenceScenario ==
  ReferenceCall =>
    LET p   == call.server.details
        raw == RawThresholdOnNum(p, 25, 0)
    IN  /\ call.server.threshold_on = 30 /\ call.server.threshold_off = 35
        /\ call.client.threshold_on = 30 /\ call.client.threshold_off = 35
        /\ (p.wiltingPointPct + safetyMargin) * ThrDen(p) < raw
        /\ raw < (p.fieldCapacityPct - safetyMargin) * ThrDen(p)

\* the reference call made against a store that holds another tomato document
C15_Witness ==
  ReferenceCall /\ call.store # << >> /\ call.server.threshold_on = 30

\* C16 - Threshold determinism: what computeThreshold returns for fixed
\* (telemetry, forecast, cropProfile) does not depend on the contents of the
\* crop-profile store.
C16_StoreIndependent ==
  call.done =>
    \A st \in CropStores :
      serverComputeThreshold(call.cropProfile, st, call.temperature,
                             call.forecastTemp, call.rain24) = call.server

\* C18 - Unconditional watchdog cutoff: whenever a device's stored relayState
\* is true, relayState eventually becomes false again, given only that time
\* advances (no further telemetry is assumed).
C18_WatchdogCutoff ==
  \A d \in TelemetryDevices :
    (deviceStates[d].exists /\ deviceStates[d].relayState) ~> ~deviceStates[d].relayState

\* C18, with telemetry: a cycle that finds the relay on for more than
\* MAX_ON_MS stores relayState = false.
C18_CutoffOnTelemetry ==
  (WatchdogCase /\ last.saved) => ~Stored.relayState

\* the text is a run of decimal digits, white space around it aside
NumericString(s) ==
  Trim(s) # << >> /\ \A i \in 1 .. Len(Trim(s)) : Trim(s)[i] \in DOMAIN DigitValue
\* a soil field that is not a number, a numeric string or a percent-suffixed
\* numeric string
UnreadableSoil(raw) ==
  \/ raw.t = "null"
  \/ /\ raw.t = "str"
     /\ ~NumericString(raw.s)
     /\ ~(/\ Trim(raw.s) # << >>
          /\ Trim(raw.s)[Len(Trim(raw.s))] = "%"
          /\ NumericString(SubSeq(Trim(raw.s), 1, Len(Trim(raw.s)) - 1)))
\* the last message was a telemetry object and went through a cycle
ObjectCycle ==
  last.kind = "cycle" /\ lastMsg.json /\ lastMsg.value.t = "obj"

\* C19 - Unreadable soil: a cycle for a payload whose soil field is unreadable
\* (null or missing, a non-numeric string, an empty or white-space string, a
\* bare '%'), in which the watchdog does not fire, ends as RECOMMEND with
\* reason no_numeric_soil, publishes nothing and leaves relayState unchanged.
C19_UnreadableSoil ==
  (/\ ObjectCycle
   /\ UnreadableSoil(PayloadSoil(lastMsg.value))
   /\ ~WatchdogFires(last.relayIsOn, last.lastOnTs, last.now))
  => /\ last.action = "RECOMMEND"
     /\ last.reason = "no_numeric_soil"
     /\ last.cmd = "NONE"
     /\ Stored.relayState = last.pre.relayState

\* C19, for the soil fields that normalizeSoil does turn into null
C19_NullSoil ==
  (/\ ObjectCycle
   /\ normalizeSoil(PayloadSoil(lastMsg.value)) = JsNull
   /\ ~WatchdogFires(last.relayIsOn, last.lastOnTs, last.now))
  => /\ last.action = "RECOMMEND"
     /\ last.reason = "no_numeric_soil"
     /\ last.cmd = "NONE"
     /\ Stored.relayState = last.pre.relayState

\* the message is not a JSON-encoded object
Malformed(msg) == ~msg.json \/ msg.value.t # "obj"

\* C20 - Malformed messages are dropped: handling a message that is not JSON,
\* or whose JSON is not an object, creates or modifies no DeviceState,
\* publishes no relay command and appends no IrrigationEvent.
C20_MalformedDropped ==
  [][(cycles' = cycles + 1 /\ Malformed(lastMsg')) =>
       /\ deviceStates' = deviceStates
       /\ events' = events
       /\ last'.cmd = "NONE"]_vars

\* C20, for the messages that safeParseJSON turns into a falsy payload
C20_FalsyDropped ==
  [][(cycles' = cycles + 1 /\ ~Truthy(safeParseJSON(lastMsg'))) =>
       /\ deviceStates' = deviceStates
       /\ events' = events
       /\ last'.kind = "dropped"]_vars

\* C21 - RECOMMEND is state-neutral: a cycle whose outcome is RECOMMEND leaves
\* the device's relayState, lastOnTs and lastOffTs as they were, in the
\* collection and in the document it holds; lastOnTs changes only in a cycle
\* that commits ON and lastOffTs only in a cycle that commits OFF.
C21_RecommendNeutral ==
  last.kind = "cycle" =>
    /\ (last.action = "RECOMMEND" =>
          /\ Stored.relayState = last.pre.relayState
          /\ Stored.lastOnTs = last.pre.lastOnTs
          /\ Stored.lastOffTs = last.pre.lastOffTs
          /\ (last.mem.exists =>
                /\ last.mem.relayState = last.pre.relayState
                /\ last.mem.lastOnTs = last.pre.lastOnTs
                /\ last.mem.lastOffTs = last.pre.lastOffTs))
    /\ (Stored.lastOnTs # last.pre.lastOnTs => last.action = "ON" /\ last.saved)
    /\ (Stored.lastOffTs # last.pre.lastOffTs => last.action = "OFF" /\ last.saved)
    /\ (last.mem.exists /\ last.mem.lastOnTs # last.pre.lastOnTs => last.action = "ON")
    /\ (last.mem.exists /\ last.mem.lastOffTs # last.pre.lastOffTs => last.action = "OFF")

\* a RECOMMEND that is stored (lastActionTs moves) with the relay on and an ON on record
C21_Witness ==
  /\ LoadedCycle /\ last.saved /\ last.action = "RECOMMEND"
  /\ last.pre.relayState /\ last.pre.lastOnTs # NullTs
  /\ Stored.lastActionTs = last.now
  /\ Stored.lastOnTs = last.pre.lastOnTs

\* names of the encodings, and the attempts made so far for one of them
FormatNames == {Formats[k] : k \in 1 .. Len(Formats)}
AttemptsOf(name) == {i \in 1 .. Len(pub.attempts) : pub.attempts[i][1] = name}
FormatIndex(name) == CHOOSE k \in 1 .. Len(Formats) : Formats[k] = name

\* C24 - Bounded retries: a run of publishManyFormats terminates.
C24_Terminates == <>(pub.done)

\* C24, the bound alone: at most 3 * (MQTT_RETRY_COUNT + 1) attempts, plain,
\* numeric, json in that order, at most MQTT_RETRY_COUNT + 1 per encoding,
\* none after an encoding's first success, and a finished run has attempted
\* every encoding.
C24_AttemptBound ==
  /\ Len(pub.attempts) <= 3 * (MQTT_RETRY_COUNT + 1)
  /\ \A i, j \in 1 .. Len(pub.attempts) :
        i < j => \/ FormatIndex(pub.attempts[i][1]) < FormatIndex(pub.attempts[j][1])
                 \/ /\ pub.attempts[i][1] = pub.attempts[j][1]
                    /\ pub.attempts[i][2] < pub.attempts[j][2]
  /\ \A name \in FormatNames : Cardinality(AttemptsOf(name)) <= MQTT_RETRY_COUNT + 1
  /\ \A i, j \in 1 .. Len(pub.outcomes) :
        (i < j /\ pub.outcomes[i] = "ok") => pub.attempts[j][1] # pub.attempts[i][1]
  /\ pub.done => \A name \in FormatNames : AttemptsOf(name) # {}

C25_NeverBoth ==
  \A name \in FormatNames :
    ~((\E k \in 1 .. Len(pub.successes) : pub.successes[k] = name) /\ name \in pub.failures)

\* the events of one device, in the order they were appended
EventsOf(log, d) == LET OfDevice(ev) == ev.deviceId = d IN SelectSeq(log, OfDevice)

\* C26 - Device independence: a cycle for device d changes no other device's
\* DeviceState, publishes only to d's relay topic (which is no other device's)
\* and appends only an event for d; whatever the interleaving, the decision,
\* the record and the events of each device are those of a controller that
\* processes that device's messages alone.
C26_DeviceIndependence ==
  [][cycles' = cycles + 1 =>
       LET d == last'.deviceId
       IN  /\ \A o \in Devices \ {d} : deviceStates'[o] = deviceStates[o]
           /\ last'.cmd # "NONE" =>
                 /\ last'.topic = zoneToRelayTopic(d)
                 /\ \A o \in Devices \ {d} : last'.topic # zoneToRelayTopic(o)
           /\ \A o \in Devices \ {d} : EventsOf(events', o) = EventsOf(events, o)
           /\ Len(events') > Len(events) => events'[Len(events')].deviceId = d
           /\ last'.action = alone'[d].action /\ last'.reason = alone'[d].reason
           /\ last'.cmd = alone'[d].cmd /\ last'.successes = alone'[d].successes
           /\ \A o \in Devices :
                 /\ deviceStates'[o] = alone'[o].deviceStates[o]
                 /\ EventsOf(events', o) = alone'[o].events]_vars

\* device B decides ON on its first reading while device A's relay is on
C26_Witness ==
  /\ last.kind = "cycle" /\ last.deviceId = "B" /\ last.action = "ON" /\ last.created
  /\ deviceStates["A"].exists /\ deviceStates["A"].relayState
  /\ alone["B"].action = "ON" /\ ~alone["B"].deviceStates["A"].exists

\* C27 - Load or create: a cycle that finds no DeviceState for its deviceId
\* and whose create succeeds leaves a record for that deviceId; the record
\* starts with relayState false and no lastOnTs/lastOffTs, the decision is
\* taken against it (relay off, no prior action), and a reading at or below
\* threshold_on publishes ON, committed when an encoding is delivered.
C27_LoadOrCreate ==
  (last.kind = "cycle" /\ last.loaded /\ ~last.pre.exists) =>
    /\ last.created /\ Stored.exists /\ last.mem.exists
    /\ ~last.relayIsOn /\ last.lastOnTs = 0 /\ last.lastOffTs = 0
    /\ last.action # "OFF"
    /\ (last.action = "RECOMMEND" =>
          /\ ~last.mem.relayState /\ last.mem.lastOnTs = NullTs /\ last.mem.lastOffTs = NullTs
          /\ ~Stored.relayState /\ Stored.lastOnTs = NullTs /\ Stored.lastOffTs = NullTs)
    /\ (SoilAtMost(last.threshold_on) =>
          /\ last.cmd = "ON" /\ last.topic = zoneToRelayTopic(last.deviceId)
          /\ (last.successes # {} =>
                /\ last.action = "ON" /\ last.mem.relayState /\ last.mem.lastOnTs = last.now
                /\ (last.saved => Stored.relayState /\ Stored.lastOnTs = last.now)))

\* the first reading of a device is below threshold_on and ON is committed
C27_Witness ==
  /\ last.kind = "cycle" /\ last.created /\ cycles = 1
  /\ SoilAtMost(last.threshold_on)
  /\ last.action = "ON" /\ last.saved /\ Stored.exists /\ Stored.relayState

\* C27, records: of two invocations that both found no record for the same
\* deviceId, at most one creates it.
C27_SingleCreate ==
  \A h1, h2 \in Handlers :
    (h1 # h2 /\ inflight[h1].deviceId = inflight[h2].deviceId) =>
      ~(inflight[h1].created /\ inflight[h2].created)

\* the last cycle met a failing findOne/create or a failing save
PersistenceFailed == last.kind = "cycle" /\ (~last.loaded \/ ~last.saved)

\* C28 - Persistence failure is not fatal: a cycle whose DeviceState load,
\* create or save fails still reaches a decision and still appends its
\* IrrigationEvent.
C28_FailureNotFatal ==
  PersistenceFailed =>
    /\ last.action \in {"ON", "OFF", "RECOMMEND"} /\ last.reason # ""
    /\ last.logged

\* C28 for the outcomes the event log accepts: the decision is reached, and an
\* ON or OFF is appended although the DeviceState could not be loaded or saved.
C28_ActuationLogged ==
  PersistenceFailed =>
    /\ last.action \in {"ON", "OFF", "RECOMMEND"} /\ last.reason # ""
    /\ (last.action \in {"ON", "OFF"} =>
          /\ last.logged
          /\ events[Len(events)].deviceId = last.deviceId
          /\ events[Len(events)].action = last.action)

\* the forecast values named malformed: absent, no daily list, an empty daily
\* list, a null first entry, a first entry without rain
MalformedForecast(forecast) ==
  \/ ~Truthy(forecast)
  \/ ~Truthy(Prop(forecast, "daily"))
  \/ Prop(forecast, "daily").items = << >>
  \/ ~Truthy(Prop(Prop(forecast, "daily").items[1], "rain"))
\* the last message was a telemetry object (not dropped at the parse)
TelemetryHandled == last.kind \in {"cycle", "threw"}

\* C29 - Handler containment: whatever happens while a message is processed,
\* the invocation of the subscribed handler settles without an exception or a
\* rejection, the handler stays subscribed, and the next telemetry message
\* is processed to its decision.
C29_HandlerContainment ==
  [][cycles' = cycles + 1 =>
       /\ hnd'.subscribed
       /\ hnd'.settled = "resolved"
       /\ (hnd.settled # "none" /\ Truthy(safeParseJSON(lastMsg')) /\ ~hnd'.threw) =>
             /\ last'.kind = "cycle"
             /\ last'.action \in {"ON", "OFF", "RECOMMEND"}
             /\ last'.relayIsOn = RelayIsOn(IF last'.loaded THEN deviceStates[last'.deviceId]
                                            ELSE NoDoc)]_vars

\* computeThreshold threw on the first message and the second one turns the relay on
C29_Witness ==
  /\ last.kind = "cycle" /\ last.action = "ON" /\ last.saved /\ ~last.created
  /\ cycles = 2 /\ hnd.failedBefore /\ Stored.exists
  /\ hnd.settled = "resolved"

\* C30 - Malformed forecast degrades to no rain: with a forecast that is
\* absent, lacks daily, has an empty daily or a first entry that is null or
\* lacks rain, computeThreshold does not throw and uses rain24 = 0, and the
\* cycle reaches its decision.
C30_MalformedForecastNoRain ==
  (TelemetryHandled /\ MalformedForecast(hnd.forecast)) =>
    /\ ~hnd.serverRain.threw /\ hnd.serverRain.rain24 = 0
    /\ ~hnd.clientRain.threw /\ hnd.clientRain.rain24 = 0
    /\ last.kind = "cycle" /\ last.action \in {"ON", "OFF", "RECOMMEND"}

\* C30 for the dashboard's computeThreshold alone, and for the server's on
\* every shape but the null first entry
C30_ClientDegrades ==
  (TelemetryHandled /\ MalformedForecast(hnd.forecast)) =>
    /\ ~hnd.clientRain.threw /\ hnd.clientRain.rain24 = 0
    /\ (Prop(hnd.forecast, "daily") # Arr(<<JsNull>>) =>
          /\ ~hnd.serverRain.threw /\ hnd.serverRain.rain24 = 0
          /\ last.kind = "cycle")

\* the commands the last operation of the dashboard sent out
NewlySent == SubSeq(ui.sent, Len(ui.before.sent) + 1, Len(ui.sent))
SentFor(zoneId) == {i \in 1 .. Len(NewlySent) : NewlySent[i].topic = zoneToTopic(zoneId)}

\* C22 - Manual lock: a runAutoCheck pass sends no relay command for a zone
\* whose manualOn is set and leaves the zone's runtime relayState,
\* lastActionTs and lastOnTs as they were, whatever the reading; of the
\* zone's status only manualLocked and lastChecked are refreshed.
C22_ManualLock ==
  ui.op.kind = "auto" =>
    \A z \in ZoneIds :
      ui.before.zones[z].manualOn =>
        /\ SentFor(z) = {}
        /\ ui.stateRef[z] = ui.before.stateRef[z]
        /\ ui.zoneStatus[z] = [ui.before.zoneStatus[z] EXCEPT
                                 !.exists = TRUE, !.manualLocked = TRUE,
                                 !.lastChecked = ui.now]

\* zone A is locked and dry with its relay off; in the same pass zone B,
\* not locked, is switched on
C22_Witness ==
  /\ ui.op.kind = "auto" /\ ui.op.soilRaw = Num(20)
  /\ ui.before.zones["A"].manualOn /\ ~ui.before.zones["B"].manualOn
  /\ ~ui.stateRef["A"].relayState
  /\ ui.zoneStatus["A"].manualLocked /\ ui.zoneStatus["A"].lastChecked = ui.now
  /\ ui.stateRef["B"].relayState /\ SentFor("B") # {} /\ SentFor("A") = {}

\* C23 - Force actions: forceAction sends the command and commits the state
\* (relayState the forced value, lastActionTs = now, lastOnTs = now for ON)
\* whatever the gates and the current relayState.
C23_ForceActions ==
  ui.op.kind = "force" =>
    /\ NewlySent = <<[topic |-> zoneToTopic(ui.op.zoneId), message |-> ui.op.action]>>
    /\ ui.stateRef[ui.op.zoneId].relayState = (ui.op.action = "ON")
    /\ ui.stateRef[ui.op.zoneId].lastActionTs = ui.now
    /\ (ui.op.action = "ON" => ui.stateRef[ui.op.zoneId].lastOnTs = ui.now)

\* C23, the commit alone: the state is written whatever the gates, and the
\* command goes out when the MQTT client is connected.
C23_ForceCommits ==
  ui.op.kind = "force" =>
    /\ ui.stateRef[ui.op.zoneId].relayState = (ui.op.action = "ON")
    /\ ui.stateRef[ui.op.zoneId].lastActionTs = ui.now
    /\ (ui.op.action = "ON" => ui.stateRef[ui.op.zoneId].lastOnTs = ui.now)
    /\ (ui.op.action = "OFF" =>
          ui.stateRef[ui.op.zoneId].lastOnTs = ui.before.stateRef[ui.op.zoneId].lastOnTs)
    /\ (ui.before.connected =>
          NewlySent = <<[topic |-> zoneToTopic(ui.op.zoneId), message |-> ui.op.action]>>)

\* C23, the later gates: a pass right after a force action switches the
\* forced zone off only MIN_ON_MS after a forced ON and on only more than
\* MIN_INTERVAL_MS after a forced OFF.
C23_GatesUseForceTimestamps ==
  [][(ui.op.kind = "force" /\ ui'.op.kind = "auto") =>
       LET z == ui.op.zoneId
       IN  /\ (ui'.stateRef[z].relayState # ui.stateRef[z].relayState /\ ui.op.action = "ON")
                 => ui'.now - ui.now >= UI_MIN_ON_MS
           /\ (ui'.stateRef[z].relayState # ui.stateRef[z].relayState /\ ui.op.action = "OFF")
                 => ui'.now - ui.now > MIN_INTERVAL_MS
           /\ (ui.op.action = "ON" /\ ui'.op.soilRaw = Num(50) /\ ~ui.zones[z].manualOn
                 /\ ui'.now - ui.now >= UI_MIN_ON_MS) => ~ui'.stateRef[z].relayState]_vars

-----------------------------------------------------------------------------
\* C31 - Client and server compute the same band: for every crop name, every
\* crop profile and every telemetry, the dashboard's crop resolution and
\* computeThreshold give the same threshold_on and threshold_off as the
\* controller's crop resolution and computeThreshold.
C31_SameBand ==
  call.done =>
    /\ call.client.threshold_on = call.server.threshold_on
    /\ call.client.threshold_off = call.server.threshold_off

\* for a crop that both tables hold with the same hysteresis the two bands agree
C31_KnownCropSameBand ==
  (/\ call.done
   /\ call.store = SeededStore
   /\ call.crop \in DOMAIN cropDefaultsTable
   /\ cropDefaultsTable[call.crop].hysteresisPct = DefaultProfile.hysteresisPct) =>
    /\ call.client.threshold_on = call.server.threshold_on
    /\ call.client.threshold_off = call.server.threshold_off

-----------------------------------------------------------------------------
\* C32 - lastActionTs tracks committed actions: after any sequence of cycles
\* for a device, the stored lastActionTs is the time of the most recent
\* committed ON or OFF (null if there is none), and a cycle that ends in
\* RECOMMEND leaves lastActionTs as it was.
C32_LastActionTracksCommits ==
  last.kind = "cycle" =>
    /\ Stored.lastActionTs =
         Max(committedOnAt[last.deviceId], committedOffAt[last.deviceId])
    /\ (last.action = "RECOMMEND" => Stored.lastActionTs = last.pre.lastActionTs)

\* what the code keeps instead: lastActionTs is the time of the last cycle
\* whose save succeeded, whatever its outcome
C32_LastActionIsLastSave ==
  last.kind = "cycle" =>
    /\ (last.saved => Stored.lastActionTs = last.now)
    /\ (~last.saved => Stored.lastActionTs = last.pre.lastActionTs)
    /\ Stored.lastActionTs >= Max(committedOnAt[last.deviceId], committedOffAt[last.deviceId])

-----------------------------------------------------------------------------
\* the device's record as the next cycle's findOne returns it
ReadBack(d) == findOne(byDeviceId(deviceStates, d), heap[d])

\* C33 - Relay state agrees with timestamps: in the record read back at the
\* start of the next cycle, relayState is true if and only if an ON has been
\* committed and lastOnTs > lastOffTs (null counted as 0), and relayState
\* false after a committed OFF implies lastOffTs >= lastOnTs.
C33_RelayAgreesWithTimestamps ==
  \A d \in Devices :
    LET state == ReadBack(d)
    IN  state.exists =>
          /\ RelayIsOn(state) <=>
               (committedOnAt[d] # NullTs /\ ReadLastOnTs(state) > ReadLastOffTs(state))
          /\ (~RelayIsOn(state) /\ committedOffAt[d] # NullTs) =>
               ReadLastOffTs(state) >= ReadLastOnTs(state)

\* the direction that survives: a relay read back as on has a committed ON
\* on record, later than any OFF read back
C33_OnImpliesTimestamps ==
  \A d \in Devices :
    LET state == ReadBack(d)
    IN  (state.exists /\ RelayIsOn(state)) =>
          /\ committedOnAt[d] # NullTs
          /\ ReadLastOnTs(state) = committedOnAt[d]
          /\ ReadLastOnTs(state) > ReadLastOffTs(state)

-----------------------------------------------------------------------------
\* C34 - OFF Gate 2 is never the blocker: with the default constants and no
\* force-state writes, a cycle whose OFF evaluation passes Gate 1
\* (now - lastOnTs >= MIN_ON_MS) also passes Gate 2
\* (now - lastOffTs >= MIN_INTERVAL_BETWEEN_OFF_MS), on the timestamps the
\* cycle read; no cycle ends in min_interval_between_off_not_elapsed.
C34_OffGate2NeverBlocks ==
  /\ (OffEvaluation /\ last.now - last.lastOnTs >= MIN_ON_MS) =>
       last.now - last.lastOffTs >= MIN_INTERVAL_BETWEEN_OFF_MS
  /\ last.reason # "min_interval_between_off_not_elapsed"

\* an OFF evaluation that passes Gate 1 and goes on to publish OFF
C34_Witness ==
  /\ OffEvaluation /\ last.now - last.lastOnTs >= MIN_ON_MS
  /\ last.relayIsOn /\ last.lastOnTs = committedOnAt[last.deviceId]
  /\ last.cmd = "OFF" /\ last.reason = "soil_above_threshold_off"

-----------------------------------------------------------------------------
\* the zone's relay was switched by the last automatic check
AutoOn(z) == ui.op.kind = "auto" /\ ~ui.before.stateRef[z].relayState /\ ui.stateRef[z].relayState
AutoOff(z) == ui.op.kind = "auto" /\ ui.before.stateRef[z].relayState /\ ~ui.stateRef[z].relayState

\* The controller's gates on the dashboard's history. With the relay off the
\* last committed action, if any, was the OFF at lastActionTs; with the relay
\* on the last OFF is no later than lastOnTs, which bounds Gate 2.
ServerPermitsOn(z) ==
  OnGate(ui.before.stateRef[z].lastOnTs, ui.before.stateRef[z].lastActionTs, ui.now).allowOn
ServerPermitsOff(z) ==
  /\ MinOnLeft(ui.before.stateRef[z].lastOnTs, ui.now) = 0
  /\ ~OffIntervalBlocks(ui.before.stateRef[z].lastOnTs, ui.now)

\* C35 - Client gating refines server gating: every automatic ON or OFF that
\* runAutoCheck commits is one the controller's ON gate, respectively OFF
\* Gates 1 and 2, permit for the same history, and after a check no relay is
\* left on for longer than the controller's MAX_ON_MS.
C35_ClientRefinesServer ==
  \A z \in ZoneIds :
    /\ AutoOn(z) => ServerPermitsOn(z)
    /\ AutoOff(z) => ServerPermitsOff(z)
    /\ (ui.op.kind = "auto" /\ ui.stateRef[z].relayState) =>
         ~WatchdogFires(TRUE, ui.stateRef[z].lastOnTs, ui.now)

\* the gating half: what the dashboard switches, the controller's gates permit
C35_GatesRefine ==
  \A z \in ZoneIds :
    /\ AutoOn(z) => ServerPermitsOn(z)
    /\ AutoOff(z) => ServerPermitsOff(z)

-----------------------------------------------------------------------------
\* the ON/OFF commands that went out to the zone's relay topic, in order
PublishedTo(zoneId) ==
  SelectSeq(ui.sent, LAMBDA m : m.topic = zoneToTopic(zoneId))
\* the relay state the last of them asks for, off when there is none
LastPublished(zoneId) ==
  LET s == PublishedTo(zoneId)
  IN  Len(s) > 0 /\ s[Len(s)].message = "ON"

\* C36 - Client state matches what was sent: after any sequence of automatic
\* checks, force actions, manual ON/OFF button presses and connection losses,
\* the runtime relayState kept for a zone equals the last ON/OFF command
\* published to that zone's relay topic (false if none was published).
C36_StateMatchesSent ==
  \A z \in ZoneIds : ui.stateRef[z].relayState = LastPublished(z)

\* what holds instead: while the client stays connected and no manual button
\* is pressed, an operation that changes relayState publishes the new state
C36_ChangePublishedWhenConnected ==
  \A z \in ZoneIds :
    (ui.before.connected /\ ui.op.kind \in {"auto", "force"}
       /\ ui.stateRef[z].relayState # ui.before.stateRef[z].relayState) =>
      /\ SentFor(z) # {}
      /\ NewlySent[CHOOSE i \in SentFor(z) : \A j \in SentFor(z) : j <= i].message
           = IF ui.stateRef[z].relayState THEN "ON" ELSE "OFF"

-----------------------------------------------------------------------------
\* the topic the claim names for a device id
DocumentedTopic(id) ==
  IF id = "A" THEN "esp32/relay1"
  ELSE IF id = "B" THEN "esp32/relay2"
  ELSE "esp32/relay/" \o id

\* C37 - Relay topics do not collide: the topic is A -> esp32/relay1,
\* B -> esp32/relay2, any other id -> esp32/relay/<id>, the same in the
\* controller and the dashboard, and two different ids never get one topic.
C37_RelayTopics ==
  call.done =>
    /\ \A k \in {1, 2} : call.serverTopics[k] = DocumentedTopic(call.ids[k])
    /\ call.clientTopics = call.serverTopics
    /\ (call.ids[1] # call.ids[2] => call.serverTopics[1] # call.serverTopics[2])

\* the part that holds for every id: both sides agree and different ids get
\* different values
C37_NoCollision ==
  call.done =>
    /\ call.clientTopics = call.serverTopics
    /\ (call.ids[1] # call.ids[2] =>
          /\ call.serverTopics[1] # call.serverTopics[2]
          /\ call.clientTopics[1] # call.clientTopics[2])
    /\ \A k \in {1, 2} :
         call.ids[k] \notin ObjectPrototypeKeys =>
           call.serverTopics[k] = DocumentedTopic(call.ids[k])

-----------------------------------------------------------------------------
\* C38 - Single subscription: after any interleaving of startController and
\* stopController calls, at most one telemetry handler is registered on the
\* live MQTT client, so a telemetry message triggers handleTelemetryMessage
\* at most once.
C38_SingleSubscription ==
  /\ (ctl.client # 0 => ctl.listeners[ctl.client] <= 1)
  /\ ctl.invoked <= 1

\* with calls of startController that never overlap, one handler at most
C38_SingleWhenNotOverlapping ==
  ~ctl.overlapped =>
    /\ (ctl.client # 0 => ctl.listeners[ctl.client] <= 1)
    /\ ctl.invoked <= 1

====
